---- MODULE Spec2Model ----
(***************************************************************************)
(* Navaar synchronisation core: the multi-direction scheduler (SyncEngine),*)
(* the track store (TrackRepository over the tracks table), the channel    *)
(* post handler and operator commands of the bot, the tg_to_yt, yt_to_tg   *)
(* and sp_to_tg direction workers, and the shutdown sequence of run().     *)
(*                                                                         *)
(* Every coroutine is cut at its awaits: one action is the code that runs  *)
(* between two suspension points of one task, so the interleavings of the  *)
(* actions are the interleavings the asyncio event loop can produce.       *)
(***************************************************************************)
EXTENDS Integers, Sequences, FiniteSets, TLC

\* ------------------------------------------------------------------------
\* Scheduler (sync/engine.py)
\* ------------------------------------------------------------------------

\* The directions wired into the engine by __main__ when no second
\* streaming service is configured, and every name force_sync may be given.
Dirs == {"tg_to_yt", "yt_to_tg"}
AllDirs == Dirs \cup {"sp_to_yt"}

\* Number of force_sync calls per direction the environment makes.
MaxForce == 2

VARIABLES
    shutdown,       \* SyncEngine._shutdown (asyncio.Event) is set
    force_events,   \* SyncEngine._force_events[d] (asyncio.Event) is set
    loop,           \* where the coroutine _run_loop(d) stands
    elapsed,        \* the asyncio.sleep(interval) task of d's wait has finished
    inflight,       \* number of _run_cycle(d) coroutines started and not ended
    last_cycle,     \* how d's latest cycle ended: "none", "complete", "crash"
    engine_run,     \* SyncEngine.run(): "running", "returned" or "cancelled"
    force_calls,    \* force_sync(d) calls made so far
    force_consumed  \* times line 105-106 found d's force event set and cleared it

engine_vars == <<shutdown, force_events, loop, elapsed, inflight, last_cycle,
                 engine_run, force_calls, force_consumed>>

VARIABLES
    tracks,         \* the tracks table: track id -> row
    next_id,        \* next value of the autoincrement primary key
    sync_log,       \* rows the latest step appended to sync_log: <<track_id, event>>
    snapshot,       \* sync_state["yt_playlist_snapshot"]: <<"none">> or <<"list", ids>>
    yt_playlist,    \* the YT playlist (external): sequence of video ids
    tg_next_msg,    \* the channel's next message id (external)
    echoes,         \* message ids of bot uploads whose channel post is undelivered
    n_posts,        \* channel posts delivered to the bot so far
    faults,         \* SyncLogRepository.log calls that have raised so far
    handlers,       \* _handle_channel_post invocations in flight
    raised,         \* <<message id, column>> of the handlers an IntegrityError ended
    op,             \* the /retry <id> command in flight, or NULL
    n_ops,          \* operator commands issued so far
    a,              \* the tg_to_yt cycle (TgToYtSync.process_pending)
    b               \* the yt_to_tg cycle (YtToTgSync.process_new_tracks)

\* The program keeps none of these three: they record, for the properties,
\* what it has done.
VARIABLES
    identified,     \* the latest identify_track call: << >> or <<args, result>>
    uploads,        \* video id -> number of send_audio calls that returned
    lingering       \* direction -> tracks left mid-pipeline when its latest
                    \* completed cycle returned

hist_vars == <<identified, uploads, lingering>>

\* The local files of the workers, and the second streaming service.
VARIABLES
    temp_files,     \* worker -> the downloaded files it has on disk
    sp_playlist,    \* the SP playlist (external): sequence of SP track ids
    sp_snapshot,    \* sync_state["sp_playlist_snapshot"]
    c               \* the sp_to_tg cycle (SpToTgSync.process_new_tracks)

sp_vars == <<sp_playlist, sp_snapshot, c>>
rest_vars == <<hist_vars, temp_files, sp_vars>>

store_vars == <<tracks, next_id, snapshot>>
world_vars == <<yt_playlist, tg_next_msg, echoes, n_posts, faults>>
bot_vars == <<handlers, raised, op, n_ops>>
app_vars == <<store_vars, sync_log, world_vars, bot_vars, a, b, rest_vars>>

EngineInit ==
    /\ shutdown = FALSE
    /\ force_events = [d \in Dirs |-> FALSE]
    /\ loop = [d \in Dirs |-> "top"]
    /\ elapsed = [d \in Dirs |-> FALSE]
    /\ inflight = [d \in Dirs |-> 0]
    /\ last_cycle = [d \in Dirs |-> "none"]
    /\ engine_run = "running"
    /\ force_calls = [d \in Dirs |-> 0]
    /\ force_consumed = [d \in Dirs |-> 0]

\* request_shutdown mutated: it also cancels the loops, so a cycle in flight
\* is abandoned where it stands.
request_shutdown_cancelling ==
    /\ ~shutdown
    /\ shutdown' = TRUE
    /\ loop' = [d \in Dirs |-> "stopped"]
    /\ UNCHANGED <<force_events, elapsed, inflight, last_cycle, engine_run,
                   force_calls, force_consumed>>
    /\ UNCHANGED app_vars

request_shutdown ==
    /\ ~shutdown
    /\ shutdown' = TRUE
    /\ UNCHANGED <<force_events, loop, elapsed, inflight, last_cycle,
                   engine_run, force_calls, force_consumed>>
    /\ UNCHANGED app_vars

\* force_sync mutated: it runs the cycle itself instead of latching a signal.
force_sync_running(d) ==
    /\ d \in Dirs
    /\ force_calls[d] < MaxForce
    /\ force_calls' = [force_calls EXCEPT ![d] = @ + 1]
    /\ inflight' = [inflight EXCEPT ![d] = @ + 1]
    /\ UNCHANGED <<shutdown, force_events, loop, elapsed, last_cycle,
                   engine_run, force_consumed>>
    /\ UNCHANGED app_vars

force_sync(d) ==
    /\ IF d \in Dirs
       THEN /\ force_calls[d] < MaxForce
            /\ force_calls' = [force_calls EXCEPT ![d] = @ + 1]
            /\ force_events' = [force_events EXCEPT ![d] = TRUE]
       ELSE UNCHANGED <<force_calls, force_events>>
    /\ UNCHANGED <<shutdown, loop, elapsed, inflight, last_cycle, engine_run,
                   force_consumed>>
    /\ UNCHANGED app_vars

\* The test of `while not self._shutdown.is_set()` and, when it passes, the
\* start of _run_cycle up to its first await; no await lies between them.
enter_loop(d, fe) ==
    /\ force_events' = fe
    /\ IF shutdown
       THEN /\ loop' = [loop EXCEPT ![d] = "stopped"]
            /\ UNCHANGED inflight
       ELSE /\ loop' = [loop EXCEPT ![d] = "cycle"]
            /\ inflight' = [inflight EXCEPT ![d] = @ + 1]

\* First iteration of _run_loop(d), scheduled by run()'s gather.
run_loop_start(d) ==
    /\ loop[d] = "top"
    /\ enter_loop(d, force_events)
    /\ UNCHANGED <<shutdown, elapsed, last_cycle, engine_run, force_calls,
                   force_consumed>>
    /\ UNCHANGED app_vars

\* End of `await self._run_cycle(direction)`: the cycle returned (complete)
\* or raised (caught at line 82, counted as cycle_crash); the loop then
\* creates the three waiter tasks and suspends in asyncio.wait.
run_cycle_end(d, how) ==
    /\ loop[d] = "cycle"
    /\ loop' = [loop EXCEPT ![d] = "wait"]
    /\ inflight' = [inflight EXCEPT ![d] = @ - 1]
    /\ last_cycle' = [last_cycle EXCEPT ![d] = how]
    /\ elapsed' = [elapsed EXCEPT ![d] = FALSE]
    /\ UNCHANGED <<shutdown, force_events, engine_run, force_calls,
                   force_consumed>>
    /\ UNCHANGED app_vars

run_cycle_return(d) == run_cycle_end(d, "complete")

\* A raise that is not caught at line 82: it ends _run_loop(d).
run_cycle_raise_escaping(d) ==
    /\ loop[d] = "cycle"
    /\ loop' = [loop EXCEPT ![d] = "stopped"]
    /\ inflight' = [inflight EXCEPT ![d] = @ - 1]
    /\ last_cycle' = [last_cycle EXCEPT ![d] = "crash"]
    /\ UNCHANGED <<shutdown, force_events, elapsed, engine_run, force_calls,
                   force_consumed>>
    /\ UNCHANGED app_vars

run_cycle_raise(d) == run_cycle_end(d, "crash")

\* The asyncio.sleep(interval) task of d's wait finishes.
interval_elapsed(d) ==
    /\ loop[d] = "wait"
    /\ ~elapsed[d]
    /\ elapsed' = [elapsed EXCEPT ![d] = TRUE]
    /\ UNCHANGED <<shutdown, force_events, loop, inflight, last_cycle,
                   engine_run, force_calls, force_consumed>>
    /\ UNCHANGED app_vars

\* The compound wait mutated: the force waiter is missing.
wait_done_no_force(d) == shutdown \/ elapsed[d]

\* The compound wait mutated: the shutdown waiter is missing.
wait_done_no_shutdown(d) == force_events[d] \/ elapsed[d]

\* asyncio.wait(..., FIRST_COMPLETED) over shutdown.wait(), force.wait() and
\* sleep(interval): some waiter of d is done.
wait_done(d) == shutdown \/ force_events[d] \/ elapsed[d]

\* asyncio.wait returns; the loop cancels the pending waiters and awaits them.
wait_return(d) ==
    /\ loop[d] = "wait"
    /\ wait_done(d)
    /\ loop' = [loop EXCEPT ![d] = "resumed"]
    /\ UNCHANGED <<shutdown, force_events, elapsed, inflight, last_cycle,
                   engine_run, force_calls, force_consumed>>
    /\ UNCHANGED app_vars

\* Lines 105-106 mutated: the force event is not cleared.
consume_force_keeping(d) == force_events

\* Lines 105-106: `if force_event.is_set(): force_event.clear()`.
consume_force(d) == [force_events EXCEPT ![d] = FALSE]

\* After the cancelled waiters are awaited: lines 105-107, then the loop test
\* and the next cycle's start, all without an await in between.
run_loop_resume(d) ==
    /\ loop[d] = "resumed"
    /\ force_consumed' =
         [force_consumed EXCEPT ![d] = IF force_events[d] THEN @ + 1 ELSE @]
    /\ enter_loop(d, consume_force(d))
    /\ UNCHANGED <<shutdown, elapsed, last_cycle, engine_run, force_calls>>
    /\ UNCHANGED app_vars

\* run(): the gather over all loops returns when every loop has returned.
run_return ==
    /\ engine_run = "running"
    /\ \A d \in Dirs : loop[d] = "stopped"
    /\ engine_run' = "returned"
    /\ UNCHANGED <<shutdown, force_events, loop, elapsed, inflight, last_cycle,
                   force_calls, force_consumed>>
    /\ UNCHANGED app_vars

\* ------------------------------------------------------------------------
\* Track store (db/models.py, db/repository.py)
\* ------------------------------------------------------------------------

\* Track.max_retries column default.
MaxRetriesDefault == 3

\* NULL of an integer column (ids start at 1) and of a text column.
NULL == 0
None == "none"

\* Track(**kwargs) with the column defaults: retry_count 0, max_retries 3,
\* failure_reason and synced_at NULL.
NewTrack(dir, msg, file_id, file_uid, vid) ==
    [direction |-> dir, status |-> "pending", tg_message_id |-> msg,
     tg_file_id |-> file_id, tg_file_unique_id |-> file_uid,
     yt_video_id |-> vid, failure_reason |-> None, retry_count |-> 0,
     max_retries |-> MaxRetriesDefault, synced_at |-> FALSE,
     sp_track_id |-> NULL, title |-> NULL, artist |-> NULL,
     duration_seconds |-> NULL]

\* The unique constraints mutated away: any value is accepted.
unique_ok_unchecked(T, id, msg, file_uid) == TRUE

\* unique=True on tg_message_id and tg_file_unique_id: no row other than
\* `id` holds the same non-NULL value (NULLs never conflict).
unique_ok(T, id, msg, file_uid) ==
    \A t \in DOMAIN T \ {id} :
        /\ msg # NULL => T[t].tg_message_id # msg
        /\ file_uid # NULL => T[t].tg_file_unique_id # file_uid

\* create_track: the INSERT commits and the row gets the next primary key.
create_track(row) ==
    /\ tracks' = tracks @@ (next_id :> row)
    /\ next_id' = next_id + 1

\* The row of a track discovered on the SP playlist: title, artist and
\* duration_seconds are kept for these rows only.
NewSpTrack(dir, sp_id, name, artist, duration_seconds) ==
    [NewTrack(dir, NULL, NULL, NULL, NULL)
        EXCEPT !.sp_track_id = sp_id, !.title = name, !.artist = artist,
               !.duration_seconds = duration_seconds]

\* get by sp_track_id: the row with that sp_track_id, the oldest one when
\* several rows carry it (tests/unit/test_sp_to_tg.py reads the sp_to_tg row
\* back after its sp_to_yt companion was created), or NULL.
get_track_by_sp_track_id(T, sp_id) ==
    LET rows == {t \in DOMAIN T : T[t].sp_track_id = sp_id}
    IN IF rows = {} THEN NULL
       ELSE CHOOSE t \in rows : \A q \in rows : t <= q

\* SELECT ... WHERE tg_file_unique_id = :v (the column is unique).
get_track_by_tg_file_unique_id(T, file_uid) ==
    {t \in DOMAIN T : T[t].tg_file_unique_id = file_uid}

\* SELECT ... WHERE tg_message_id = :v (the column is unique).
get_track_by_tg_message_id(T, msg) ==
    {t \in DOMAIN T : T[t].tg_message_id = msg}

\* SELECT ... WHERE yt_video_id = :v; scalar_one_or_none raises on two rows.
get_track_by_yt_video_id(T, vid) ==
    {t \in DOMAIN T : T[t].yt_video_id = vid}

\* get_pending_tracks mutated: the status filter is dropped.
get_pending_tracks_any_status(T, dir) ==
    {t \in DOMAIN T : T[t].direction = dir}

\* get_pending_tracks: direction = :d AND status IN (pending, retry_scheduled).
get_pending_tracks(T, dir) ==
    {t \in DOMAIN T : T[t].direction = dir
                      /\ T[t].status \in {"pending", "retry_scheduled"}}

\* The row after UPDATE ... SET **values.
set_values(r, values) ==
    [col \in DOMAIN r |->
        IF col \in DOMAIN values THEN values[col] ELSE r[col]]

\* update_track: UPDATE ... WHERE id = :id; no row, no change.
update_track(T, id, values) ==
    IF id \in DOMAIN T THEN [T EXCEPT ![id] = set_values(T[id], values)]
    ELSE T

\* The values mark_synced writes besides **extra.
values_synced == [status |-> "synced", synced_at |-> TRUE]

\* A mark_synced that drops the identifier passed in **extra.
mark_synced_without_id(T, id, extra) == update_track(T, id, values_synced)

\* mark_synced: status, synced_at and the identifier of the target.
mark_synced(T, id, extra) == update_track(T, id, values_synced @@ extra)

\* The values mark_failed writes: retry_count is the value read plus one.
values_failed(r, reason) ==
    [status |-> "failed", failure_reason |-> reason,
     retry_count |-> r.retry_count + 1]

\* A mark_failed that writes the reason and the count and leaves the status.
mark_failed_keeping_status(T, id, reason) ==
    IF id \in DOMAIN T
    THEN update_track(T, id, [failure_reason |-> reason,
                              retry_count |-> T[id].retry_count + 1])
    ELSE T

\* mark_failed: get_track, return None when the row is gone, else update.
mark_failed(T, id, reason) ==
    IF id \in DOMAIN T THEN update_track(T, id, values_failed(T[id], reason))
    ELSE T

\* A duplicate that is recorded as a failure instead.
mark_duplicate_as_failed(T, id) == mark_failed(T, id, "duplicate")

mark_duplicate(T, id) == update_track(T, id, [status |-> "duplicate"])

\* The values reset_for_retry and reset_all_failed write.
values_retry == [status |-> "retry_scheduled", failure_reason |-> None]

\* A reset that leaves the failure reason of the row in place.
reset_for_retry_keeping_reason(T, id) == update_track(T, id, [status |-> "retry_scheduled"])

reset_for_retry(T, id) == update_track(T, id, values_retry)

\* An UPDATE without the WHERE on the status.
reset_all_failed_any_status(T, dir) ==
    [t \in DOMAIN T |->
        IF dir = None \/ T[t].direction = dir
        THEN set_values(T[t], values_retry) ELSE T[t]]

\* reset_all_failed, line 115: the row count of the UPDATE.
reset_all_failed_rowcount(T, dir) ==
    Cardinality({t \in DOMAIN T :
        T[t].status = "failed" /\ (dir = None \/ T[t].direction = dir)})

\* reset_all_failed: UPDATE ... WHERE status = 'failed' [AND direction = :d].
reset_all_failed(T, dir) ==
    [t \in DOMAIN T |->
        IF T[t].status = "failed" /\ (dir = None \/ T[t].direction = dir)
        THEN set_values(T[t], values_retry) ELSE T[t]]

\* delete_track: the row is removed when it exists.
delete_track(T, id) == [t \in DOMAIN T \ {id} |-> T[t]]

\* The ids of a set of rows in descending order.
RECURSIVE SortedIds_descending(_)
SortedIds_descending(S) ==
    IF S = {} THEN <<>>
    ELSE LET m == CHOOSE x \in S : \A y \in S : x >= y
         IN <<m>> \o SortedIds_descending(S \ {m})

\* The ids of a set of rows in the order the SELECT returns them: the
\* statement has no ORDER BY and no index covers its WHERE clause, so SQLite
\* scans the table by rowid, which is the id.
RECURSIVE SortedIds(_)
SortedIds(S) ==
    IF S = {} THEN <<>>
    ELSE LET m == CHOOSE x \in S : \A y \in S : x <= y
         IN <<m>> \o SortedIds(S \ {m})

Range(q) == {q[i] : i \in 1..Len(q)}

\* ------------------------------------------------------------------------
\* Environment: the channel, the YT playlist, failing calls
\* ------------------------------------------------------------------------

\* Distinct audio files users post, distinct YT videos, channel posts
\* delivered to the bot, operator commands issued, log calls that raise.
NFiles == 2
NVideos == 1
MaxPosts == 2
MaxOps == 3
MaxFaults == 1
NSourceVideos == 2
MaxRows == 3

Files == 1..NFiles
Videos == 1..NVideos

\* Video ids of the playlist in the specification of the playlist diff.
SourceVideos == 1..NSourceVideos
AllVideos == Videos \cup SourceVideos

\* file_unique_id of the audio the bot uploaded as message m.
UploadFile(m) == NFiles + m

\* The sync_log table only grows and nothing reads it back: the state keeps
\* the rows appended by the latest step.  no_log is a step that appends none.
no_log == sync_log' = {}

\* SyncLogRepository.log: one row is appended.
log_event(id, event) == sync_log' = {<<id, event>>}

\* The workers that download files.
Workers == {"tg_to_yt", "yt_to_tg", "sp_to_tg"}

\* download_file and download return the path of a new local file; local_path
\* is local to the call that processes one track, and the file is named here
\* by that track.
obtain(w, f) == temp_files' = [temp_files EXCEPT ![w] = @ \cup {f}]

\* A cleanup that leaves the file on disk.
cleanup_nothing(w, f) == temp_files' = temp_files

\* TelegramClient.cleanup and YTDownloader.cleanup: the file is unlinked.
cleanup(w, f) == temp_files' = [temp_files EXCEPT ![w] = @ \ {f}]

\* SyncLogRepository.log may raise (a locked or unreachable database).
\* `ok` is the outcome the environment picks; at most MaxFaults log calls
\* raise.
fault_choice(ok) ==
    /\ ok \in BOOLEAN
    /\ ~ok => faults < MaxFaults
    /\ faults' = IF ok THEN faults ELSE faults + 1

\* A user adds a video to the YT playlist.
yt_user_add(v) ==
    /\ v \notin Range(yt_playlist)
    /\ yt_playlist' = Append(yt_playlist, v)
    /\ UNCHANGED <<store_vars, tg_next_msg, echoes, n_posts, faults, bot_vars,
                   a, b, engine_vars,
                   rest_vars>>
    /\ no_log

\* A user removes a video from the YT playlist (no longer once the tracks
\* table has MaxRows rows, which keeps the table finite).
yt_user_remove(v) ==
    /\ v \in Range(yt_playlist)
    /\ next_id <= MaxRows
    /\ yt_playlist' = SelectSeq(yt_playlist, LAMBDA x : x # v)
    /\ UNCHANGED <<store_vars, tg_next_msg, echoes, n_posts, faults, bot_vars,
                   a, b, engine_vars,
                   rest_vars>>
    /\ no_log

\* ------------------------------------------------------------------------
\* Bot (telegram/bot.py)
\* ------------------------------------------------------------------------

\* _handle_channel_post up to its first await, for a message a user posts:
\* lines 116-125 return for a post without audio or of another chat.
channel_post(f, kind) ==
    /\ n_posts < MaxPosts
    /\ IF kind = "audio"
       THEN /\ n_posts' = n_posts + 1
            /\ tg_next_msg' = tg_next_msg + 1
            /\ handlers' = handlers \cup
                             {[pc |-> "lookup_file", msg |-> tg_next_msg,
                               file |-> f, id |-> NULL]}
       ELSE UNCHANGED <<n_posts, tg_next_msg, handlers>>
    /\ UNCHANGED <<store_vars, yt_playlist, echoes, faults, raised, op, n_ops,
                   a, b, engine_vars,
                   rest_vars>>
    /\ no_log

\* The channel post of an audio the bot uploaded reaches the handler; line
\* 123 drops it when from_user is present and is the bot.
echo_post(m, from_bot) ==
    /\ m \in echoes
    /\ n_posts < MaxPosts
    /\ n_posts' = n_posts + 1
    /\ echoes' = echoes \ {m}
    /\ handlers' =
         IF from_bot THEN handlers
         ELSE handlers \cup
                {[pc |-> "lookup_file", msg |-> m, file |-> UploadFile(m),
                  id |-> NULL]}
    /\ UNCHANGED <<store_vars, yt_playlist, tg_next_msg, faults, raised, op,
                   n_ops, a, b, engine_vars,
                   rest_vars>>
    /\ no_log

handler_moves(h, pc) == (handlers \ {h}) \cup {[h EXCEPT !.pc = pc]}

\* Lines 138-141: dedup by file_unique_id.
handler_lookup_file(h) ==
    /\ h \in handlers /\ h.pc = "lookup_file"
    /\ handlers' =
         IF get_track_by_tg_file_unique_id(tracks, h.file) # {}
         THEN handlers \ {h}
         ELSE handler_moves(h, "lookup_msg")
    /\ UNCHANGED <<store_vars, world_vars, raised, op, n_ops, a, b,
                   engine_vars,
                   rest_vars>>
    /\ no_log

\* Lines 144-147: dedup by message_id.
handler_lookup_msg(h) ==
    /\ h \in handlers /\ h.pc = "lookup_msg"
    /\ handlers' =
         IF get_track_by_tg_message_id(tracks, h.msg) # {}
         THEN handlers \ {h}
         ELSE handler_moves(h, "create")
    /\ UNCHANGED <<store_vars, world_vars, raised, op, n_ops, a, b,
                   engine_vars,
                   rest_vars>>
    /\ no_log

\* The column an IntegrityError of create_track names.
conflict_column(T, file_uid) ==
    IF get_track_by_tg_file_unique_id(T, file_uid) # {}
    THEN "tg_file_unique_id" ELSE "tg_message_id"

\* Lines 149-159: create_track; the commit raises IntegrityError when a
\* unique column conflicts, and nothing in the handler catches it.
handler_create(h) ==
    /\ h \in handlers /\ h.pc = "create"
    /\ IF unique_ok(tracks, NULL, h.msg, h.file)
       THEN /\ create_track(NewTrack("tg_to_yt", h.msg, h.file, h.file, NULL))
            /\ handlers' = (handlers \ {h}) \cup
                             {[h EXCEPT !.pc = "log", !.id = next_id]}
            /\ UNCHANGED raised
       ELSE /\ handlers' = handlers \ {h}
            /\ raised' = raised \cup {<<h.msg, conflict_column(tracks, h.file)>>}
            /\ UNCHANGED <<tracks, next_id>>
    /\ UNCHANGED <<snapshot, world_vars, op, n_ops, a, b,
                   engine_vars,
                   rest_vars>>
    /\ no_log

\* Lines 160-171: the track_discovered log call, and the return.
handler_log(h, ok) ==
    /\ h \in handlers /\ h.pc = "log"
    /\ fault_choice(ok)
    /\ handlers' = handlers \ {h}
    /\ IF ok THEN log_event(h.id, "track_discovered")
       ELSE no_log
    /\ UNCHANGED <<tracks, next_id, snapshot, yt_playlist, tg_next_msg, echoes,
                   n_posts, raised, op, n_ops, a, b, engine_vars,
                   rest_vars>>

\* /retry all|tg|yt and the retry_all button: reset_all_failed.  The
\* application is built without concurrent_updates (line 676) and handles
\* one command at a time: none starts while a /retry <id> is in flight.
cmd_retry_all(dir) ==
    /\ n_ops < MaxOps
    /\ op = NULL
    /\ n_ops' = n_ops + 1
    /\ tracks' = reset_all_failed(tracks, dir)
    /\ UNCHANGED <<next_id, snapshot, world_vars, handlers, raised,
                   op, a, b, engine_vars,
                   rest_vars>>
    /\ no_log

\* /retry <id> and the retry_<id> button, up to reset_for_retry: get_track,
\* and a reply without a change unless the track exists and is failed.
cmd_retry_lookup(id) ==
    /\ n_ops < MaxOps
    /\ op = NULL
    /\ n_ops' = n_ops + 1
    /\ op' = IF id \in DOMAIN tracks /\ tracks[id].status = "failed"
             THEN id ELSE NULL
    /\ UNCHANGED <<store_vars, world_vars, handlers, raised, a, b,
                   engine_vars,
                   rest_vars>>
    /\ no_log

\* /retry <id>, second half: reset_for_retry(track_id).
cmd_retry_reset ==
    /\ op # NULL
    /\ tracks' = reset_for_retry(tracks, op)
    /\ op' = NULL
    /\ UNCHANGED <<next_id, snapshot, world_vars, handlers, raised,
                   n_ops, a, b, engine_vars,
                   rest_vars>>
    /\ no_log

\* /delete <id> and the delete_<id> button: delete_track.
cmd_delete(id) ==
    /\ n_ops < MaxOps
    /\ op = NULL
    /\ n_ops' = n_ops + 1
    /\ tracks' = delete_track(tracks, id)
    /\ no_log
    /\ UNCHANGED <<next_id, snapshot, world_vars, handlers, raised,
                   op, a, b, engine_vars,
                   rest_vars>>

\* ------------------------------------------------------------------------
\* tg_to_yt worker (sync/tg_to_yt.py)
\* ------------------------------------------------------------------------

AIdle == [pc |-> "idle", work |-> <<>>, snap |-> {}, cur |-> NULL, vid |-> NULL,
          processed |-> 0]

a_unchanged == UNCHANGED <<next_id, snapshot, tg_next_msg, echoes, n_posts,
                           bot_vars, b, engine_vars,
                   rest_vars>>

a_unchanged_but_files == UNCHANGED <<next_id, snapshot, tg_next_msg, echoes,
                                     n_posts, bot_vars, b, engine_vars,
                                     hist_vars, sp_vars>>

\* A loop whose counter is never advanced.
a_next_uncounted(processed) ==
    IF Len(a.work) > 1
    THEN [a EXCEPT !.pc = "identify", !.work = Tail(a.work),
                   !.cur = a.work[2], !.vid = NULL]
    ELSE [AIdle EXCEPT !.pc = "return", !.processed = a.processed]

\* The for loop of process_pending moves to the next track of the work list,
\* or reaches the return statement; processed is the counter of line 49.
a_next(processed) ==
    IF Len(a.work) > 1
    THEN [a EXCEPT !.pc = "identify", !.work = Tail(a.work),
                   !.cur = a.work[2], !.vid = NULL,
                   !.processed = processed]
    ELSE [AIdle EXCEPT !.pc = "return", !.processed = processed]

\* process_pending, lines 38-44: the work list, then the target playlist
\* fetched once; a cycle with no pending track returns 0, and a fetch that
\* raises ends the cycle.
a_begin(fetch_ok) ==
    /\ a.pc = "idle"
    /\ LET work == SortedIds(get_pending_tracks(tracks, "tg_to_yt"))
       IN a' = IF work = <<>> THEN [AIdle EXCEPT !.pc = "return"]
               ELSE IF fetch_ok
               THEN [pc |-> "identify", work |-> work,
                     snap |-> Range(yt_playlist), cur |-> work[1],
                     vid |-> NULL, processed |-> 0]
               ELSE [AIdle EXCEPT !.pc = "raised"]
    /\ UNCHANGED <<tracks, yt_playlist, faults>>
    /\ a_unchanged
    /\ no_log

\* The exception of get_playlist_tracks (line 44, outside any try) leaves
\* process_pending.
a_raise ==
    /\ a.pc = "raised"
    /\ a' = AIdle
    /\ UNCHANGED <<tracks, yt_playlist, faults>>
    /\ a_unchanged
    /\ no_log

\* _process_track, line 69.
a_identifying ==
    /\ a.pc = "identify"
    /\ tracks' = update_track(tracks, a.cur, [status |-> "identifying"])
    /\ a' = [a EXCEPT !.pc = "download"]
    /\ UNCHANGED <<yt_playlist, faults>>
    /\ a_unchanged
    /\ no_log

\* Lines 72-82: download_file returns the local file, or raises;
\* identify_track reads the file.
a_download(ok) ==
    /\ a.pc = "download"
    /\ IF ok
       THEN /\ obtain("tg_to_yt", a.cur)
            /\ a' = [a EXCEPT !.pc = "to_searching"]
       ELSE /\ a' = [a EXCEPT !.pc = "except"]
            /\ UNCHANGED temp_files
    /\ UNCHANGED <<tracks, yt_playlist, faults>>
    /\ a_unchanged_but_files
    /\ no_log

\* Lines 84-99: the update to searching, and the finally clause that
\* removes the local file.
a_searching ==
    /\ a.pc = "to_searching"
    /\ tracks' = update_track(tracks, a.cur, [status |-> "searching"])
    /\ cleanup("tg_to_yt", a.cur)
    /\ a' = [a EXCEPT !.pc = "search"]
    /\ UNCHANGED <<yt_playlist, faults>>
    /\ a_unchanged_but_files
    /\ no_log

\* Lines 102-139: get_track (a deleted row makes track.artist raise), the
\* search (m = NULL: no match), the duplicate test against the playlist of
\* the cycle's start, and the first write of the branch taken.
a_search(ok, m) ==
    /\ a.pc = "search"
    /\ IF ~ok \/ a.cur \notin DOMAIN tracks
       THEN /\ a' = [a EXCEPT !.pc = "except"]
            /\ UNCHANGED tracks
       ELSE IF m = NULL
       THEN /\ tracks' = mark_failed(tracks, a.cur, "no_yt_match")
            /\ a' = [a EXCEPT !.pc = "log_no_match"]
       ELSE IF m \in a.snap
       THEN /\ tracks' = mark_duplicate(tracks, a.cur)
            /\ a' = [a EXCEPT !.pc = "dup_update", !.vid = m]
       ELSE /\ tracks' = update_track(tracks, a.cur, [status |-> "syncing"])
            /\ a' = [a EXCEPT !.pc = "add", !.vid = m]
    /\ UNCHANGED <<yt_playlist, faults>>
    /\ a_unchanged
    /\ no_log

\* Line 127.
a_dup_update ==
    /\ a.pc = "dup_update"
    /\ tracks' = update_track(tracks, a.cur, [yt_video_id |-> a.vid])
    /\ a' = [a EXCEPT !.pc = "log_duplicate"]
    /\ UNCHANGED <<yt_playlist, faults>>
    /\ a_unchanged
    /\ no_log

\* Line 140: add_to_playlist returns or raises.
a_add(ok) ==
    /\ a.pc = "add"
    /\ IF ok
       THEN /\ yt_playlist' = Append(yt_playlist, a.vid)
            /\ a' = [a EXCEPT !.pc = "mark_synced"]
       ELSE /\ a' = [a EXCEPT !.pc = "except"]
            /\ UNCHANGED yt_playlist
    /\ UNCHANGED <<tracks, faults>>
    /\ a_unchanged
    /\ no_log

\* Line 142.
a_mark_synced ==
    /\ a.pc = "mark_synced"
    /\ tracks' = mark_synced(tracks, a.cur,
                             [yt_video_id |-> a.vid])
    /\ a' = [a EXCEPT !.pc = "log_synced"]
    /\ UNCHANGED <<yt_playlist, faults>>
    /\ a_unchanged
    /\ no_log

\* A log call that names the event of the synced branch in every branch.
AEvent_track_synced(pc) == "track_synced"

\* The event of the log call at lines 111, 128 and 143.
AEvent(pc) ==
    CASE pc = "log_no_match" -> "no_yt_match"
      [] pc = "log_duplicate" -> "duplicate_skipped"
      [] pc = "log_synced" -> "track_synced"

\* Lines 111, 128, 143: the log call of the branch, after which
\* _process_track returns and line 49 counts the track; when the call raises,
\* the exception reaches the handler of process_pending.
a_log(ok) ==
    /\ a.pc \in {"log_no_match", "log_duplicate", "log_synced"}
    /\ fault_choice(ok)
    /\ a' = IF ok THEN a_next(a.processed + 1) ELSE [a EXCEPT !.pc = "except"]
    /\ IF ok THEN log_event(a.cur, AEvent(a.pc)) ELSE no_log
    /\ UNCHANGED <<tracks, yt_playlist>>
    /\ a_unchanged

\* A handler that logs the failure and leaves the track as it is.
a_except_without_mark ==
    /\ a.pc = "except"
    /\ a' = [a EXCEPT !.pc = "except_log"]
    /\ UNCHANGED <<tracks, yt_playlist, faults>>
    /\ a_unchanged
    /\ no_log

\* process_pending, lines 50-56: any exception of _process_track.
a_except ==
    /\ a.pc = "except"
    /\ tracks' = mark_failed(tracks, a.cur, "unexpected_error")
    /\ a' = [a EXCEPT !.pc = "except_log"]
    /\ UNCHANGED <<yt_playlist, faults>>
    /\ a_unchanged
    /\ no_log

\* Lines 57-63: the sync_failed log call; raising here ends the cycle.
a_except_log(ok) ==
    /\ a.pc = "except_log"
    /\ fault_choice(ok)
    /\ a' = IF ok THEN a_next(a.processed) ELSE AIdle
    /\ IF ok THEN log_event(a.cur, "sync_failed") ELSE no_log
    /\ UNCHANGED <<tracks, yt_playlist>>
    /\ a_unchanged

\* The tracks of a direction that are between two steps of its pipeline.
in_pipeline(T, dir) ==
    {t \in DOMAIN T : /\ T[t].direction = dir
                      /\ T[t].status \in {"identifying", "searching",
                                          "syncing"}}

\* Lines 40 and 65: process_pending returns 0, or returns processed.
a_return ==
    /\ a.pc = "return"
    /\ a' = AIdle
    /\ lingering' = [lingering EXCEPT !["tg_to_yt"] =
                                         in_pipeline(tracks, "tg_to_yt")]
    /\ UNCHANGED <<store_vars, world_vars, bot_vars, b, engine_vars,
                   identified, uploads,
                   temp_files, sp_vars>>
    /\ no_log

\* ------------------------------------------------------------------------
\* yt_to_tg worker (sync/yt_to_tg.py)
\* ------------------------------------------------------------------------

BIdle == [pc |-> "idle", work |-> <<>>, cur |-> NULL, vid |-> NULL,
          msg |-> NULL, current_ids |-> <<>>, new_ids |-> <<>>, synced |-> 0]

b_unchanged == UNCHANGED <<n_posts, bot_vars, a, engine_vars,
                   rest_vars>>

b_unchanged_but_files == UNCHANGED <<n_posts, bot_vars, a, engine_vars,
                                     hist_vars, sp_vars>>

\* The retry loop of process_new_tracks, lines 47-49: the rows with a
\* yt_video_id, in the order read.
SkipNoVideo(T, q) == SelectSeq(q, LAMBDA t : T[t].yt_video_id # NULL)

\* The loop moves to its next track, or the cycle goes on to Part 2.
b_retry_from(q) ==
    IF q = <<>>
    THEN [b EXCEPT !.pc = "fetch", !.work = <<>>, !.cur = NULL, !.vid = NULL,
                   !.msg = NULL]
    ELSE [b EXCEPT !.pc = "retry_syncing", !.work = q, !.cur = q[1],
                   !.vid = NULL, !.msg = NULL]

b_retry_next == b_retry_from(Tail(b.work))

\* The for loop over new_ids moves to the next id, or to the snapshot write.
b_new_from(q) ==
    IF q = <<>>
    THEN [b EXCEPT !.pc = "snapshot", !.new_ids = <<>>, !.cur = NULL,
                   !.vid = NULL, !.msg = NULL]
    ELSE [b EXCEPT !.pc = "new_lookup", !.new_ids = q, !.cur = NULL,
                   !.vid = q[1], !.msg = NULL]

b_new_next == b_new_from(Tail(b.new_ids))

\* Lines 51 and 72: synced += 1 after _retry_track or _sync_track returned.
b_counted(next) == [next EXCEPT !.synced = b.synced + 1]

\* process_new_tracks, lines 46-49: the rows read for Part 1.  The rows are
\* the objects loaded here: their yt_video_id is the one read now.
b_begin ==
    /\ b.pc = "idle"
    /\ b' = b_retry_from(
              SkipNoVideo(tracks,
                          SortedIds(get_pending_tracks(tracks, "yt_to_tg"))))
    /\ UNCHANGED <<store_vars, world_vars>>
    /\ b_unchanged
    /\ no_log

\* _retry_track, line 86.
b_retry_syncing ==
    /\ b.pc = "retry_syncing"
    /\ tracks' = update_track(tracks, b.cur, [status |-> "syncing"])
    /\ b' = [b EXCEPT !.pc = "retry_download"]
    /\ UNCHANGED <<next_id, snapshot, world_vars>>
    /\ b_unchanged
    /\ no_log

\* Lines 88-95: the download returns, or raises and the track is failed.
b_retry_download(ok) ==
    /\ b.pc = "retry_download"
    /\ IF ok
       THEN /\ obtain("yt_to_tg", b.cur)
            /\ b' = [b EXCEPT !.pc = "retry_upload"]
            /\ UNCHANGED tracks
       ELSE /\ tracks' = mark_failed(tracks, b.cur, "download_failed")
            /\ b' = b_retry_next
            /\ UNCHANGED temp_files
    /\ UNCHANGED <<next_id, snapshot, world_vars>>
    /\ b_unchanged_but_files
    /\ no_log

\* send_audio: the channel gives the upload the next message id.
send_audio(v) ==
    /\ tg_next_msg' = tg_next_msg + 1
    /\ echoes' = echoes \cup {tg_next_msg}
    /\ uploads' = IF v \in DOMAIN uploads
                  THEN [uploads EXCEPT ![v] = @ + 1] ELSE uploads

\* Lines 97-105 and 111-116: send_audio returns, or raises and the track is
\* failed and the finally clause removes the file.
b_retry_upload(ok) ==
    /\ b.pc = "retry_upload"
    /\ IF ok
       THEN /\ send_audio(IF b.cur \in DOMAIN tracks
                          THEN tracks[b.cur].yt_video_id ELSE NULL)
            /\ b' = [b EXCEPT !.pc = "retry_mark", !.msg = tg_next_msg]
            /\ UNCHANGED <<tracks, temp_files>>
       ELSE /\ tracks' = mark_failed(tracks, b.cur, "upload_failed")
            /\ cleanup("yt_to_tg", b.cur)
            /\ b' = b_retry_next
            /\ UNCHANGED <<tg_next_msg, echoes, uploads>>
    /\ UNCHANGED <<next_id, snapshot, yt_playlist, faults>>
    /\ UNCHANGED <<n_posts, bot_vars, a, engine_vars, identified, lingering,
                   sp_vars>>
    /\ no_log

\* mark_synced(track.id, tg_message_id=message_id): the UPDATE raises
\* IntegrityError when another row holds the message id, and the handler of
\* the surrounding try marks the track failed.
b_write_synced ==
    IF unique_ok(tracks, b.cur, b.msg, NULL)
    THEN mark_synced(tracks, b.cur,
                     [tg_message_id |-> b.msg])
    ELSE mark_failed(tracks, b.cur, "upload_failed")

\* Lines 107 and 111-116.
b_retry_mark ==
    /\ b.pc = "retry_mark"
    /\ tracks' = b_write_synced
    /\ cleanup("yt_to_tg", b.cur)
    /\ b' = IF unique_ok(tracks, b.cur, b.msg, NULL)
            THEN b_counted(b_retry_next) ELSE b_retry_next
    /\ UNCHANGED <<next_id, snapshot, world_vars>>
    /\ b_unchanged_but_files
    /\ no_log

\* A diff by position: the ids after the first Len(previous snapshot) ones.
new_ids_of_by_position(current, prev) ==
    LET n == IF prev[1] = "list" THEN Len(prev[2]) ELSE 0
    IN SubSeq(current, n + 1, Len(current))

\* A diff that ignores the stored snapshot.
new_ids_of_without_snapshot(current, prev) == current

\* Lines 61-64: the ids of the fetched playlist that are not in the stored
\* snapshot, in playlist order.
new_ids_of(current, prev) ==
    LET prev_ids == IF prev[1] = "list" THEN Range(prev[2]) ELSE {}
    IN SelectSeq(current, LAMBDA v : v \notin prev_ids)

\* A fetch whose failure is taken for an empty playlist and stored.
b_fetch_clearing(ok) ==
    /\ b.pc = "fetch"
    /\ b' = IF ok
            THEN [b_new_from(new_ids_of(yt_playlist, snapshot))
                    EXCEPT !.current_ids = yt_playlist]
            ELSE BIdle
    /\ snapshot' = IF ok THEN snapshot ELSE <<"list", <<>>>>
    /\ UNCHANGED <<tracks, next_id, world_vars>>
    /\ b_unchanged
    /\ no_log

\* Lines 58-68: the playlist fetch (raising ends the cycle), the stored
\* snapshot, and the loop over the new ids.
b_fetch(ok) ==
    /\ b.pc = "fetch"
    /\ b' = IF ok
            THEN [b_new_from(new_ids_of(yt_playlist, snapshot))
                    EXCEPT !.current_ids = yt_playlist]
            ELSE BIdle
    /\ UNCHANGED <<store_vars, world_vars>>
    /\ b_unchanged
    /\ no_log

\* A _sync_track that does not look for an existing row.
b_new_lookup_without_gate ==
    /\ b.pc = "new_lookup"
    /\ b' = [b EXCEPT !.pc = "new_create"]
    /\ UNCHANGED <<store_vars, world_vars>>
    /\ b_unchanged
    /\ no_log

\* _sync_track, lines 122-125: the row of this video id; two rows make
\* scalar_one_or_none raise, a synced or duplicate row makes it return (and
\* line 72 counts the video).
b_new_lookup ==
    /\ b.pc = "new_lookup"
    /\ LET rows == get_track_by_yt_video_id(tracks, b.vid)
       IN b' = IF Cardinality(rows) > 1
               THEN b_new_next
               ELSE IF \E t \in rows :
                          tracks[t].status \in {"synced", "duplicate"}
               THEN b_counted(b_new_next)
               ELSE [b EXCEPT !.pc = "new_create"]
    /\ UNCHANGED <<store_vars, world_vars>>
    /\ b_unchanged
    /\ no_log

\* Lines 133-142.
b_new_create ==
    /\ b.pc = "new_create"
    /\ create_track(NewTrack("yt_to_tg", NULL, NULL, NULL, b.vid))
    /\ b' = [b EXCEPT !.pc = "new_syncing", !.cur = next_id]
    /\ UNCHANGED <<snapshot, world_vars>>
    /\ b_unchanged
    /\ no_log

\* Line 146.
b_new_syncing ==
    /\ b.pc = "new_syncing"
    /\ tracks' = update_track(tracks, b.cur, [status |-> "syncing"])
    /\ b' = [b EXCEPT !.pc = "new_download"]
    /\ UNCHANGED <<next_id, snapshot, world_vars>>
    /\ b_unchanged
    /\ no_log

\* A download whose failure is recorded without the raise: the upload is
\* attempted all the same.
b_new_download_without_raise(ok) ==
    /\ b.pc = "new_download"
    /\ tracks' = IF ok THEN tracks
                 ELSE mark_failed(tracks, b.cur, "download_failed")
    /\ obtain("yt_to_tg", b.cur)
    /\ b' = [b EXCEPT !.pc = "new_upload"]
    /\ UNCHANGED <<next_id, snapshot, world_vars>>
    /\ b_unchanged_but_files
    /\ no_log

\* Lines 147-153.
b_new_download(ok) ==
    /\ b.pc = "new_download"
    /\ IF ok
       THEN /\ obtain("yt_to_tg", b.cur)
            /\ b' = [b EXCEPT !.pc = "new_upload"]
            /\ UNCHANGED tracks
       ELSE /\ tracks' = mark_failed(tracks, b.cur, "download_failed")
            /\ b' = [b EXCEPT !.pc = "log_download_failed"]
            /\ UNCHANGED temp_files
    /\ UNCHANGED <<next_id, snapshot, world_vars>>
    /\ b_unchanged_but_files
    /\ no_log

\* Lines 163-172 and 196-198.
b_new_upload(ok) ==
    /\ b.pc = "new_upload"
    /\ IF ok
       THEN /\ send_audio(b.vid)
            /\ b' = [b EXCEPT !.pc = "new_mark", !.msg = tg_next_msg]
            /\ UNCHANGED tracks
       ELSE /\ tracks' = mark_failed(tracks, b.cur, "upload_failed")
            /\ b' = [b EXCEPT !.pc = "log_upload_failed"]
            /\ UNCHANGED <<tg_next_msg, echoes, uploads>>
    /\ UNCHANGED <<next_id, snapshot, yt_playlist, faults>>
    /\ UNCHANGED <<n_posts, bot_vars, a, engine_vars, identified, lingering,
                   temp_files, sp_vars>>
    /\ no_log

\* Lines 174-177 and 196-198.
b_new_mark ==
    /\ b.pc = "new_mark"
    /\ tracks' = b_write_synced
    /\ b' = [b EXCEPT !.pc = IF unique_ok(tracks, b.cur, b.msg, NULL)
                             THEN "log_synced" ELSE "log_upload_failed"]
    /\ UNCHANGED <<next_id, snapshot, world_vars>>
    /\ b_unchanged
    /\ no_log

\* Lines 178-187 and 206-207: the track_synced log call, then the finally
\* clause; when the call raises, the handler at line 196 marks the track
\* failed.
b_new_log(ok) ==
    /\ b.pc = "log_synced"
    /\ fault_choice(ok)
    /\ IF ok
       THEN /\ log_event(b.cur, "track_synced")
            /\ cleanup("yt_to_tg", b.cur)
            /\ b' = b_counted(b_new_next)
            /\ UNCHANGED tracks
       ELSE /\ tracks' = mark_failed(tracks, b.cur, "upload_failed")
            /\ b' = [b EXCEPT !.pc = "log_upload_failed"]
            /\ UNCHANGED temp_files
            /\ no_log
    /\ UNCHANGED <<next_id, snapshot, yt_playlist, tg_next_msg, echoes>>
    /\ b_unchanged_but_files

\* The event of the log call at lines 154 and 199.
BEvent(pc) ==
    CASE pc = "log_download_failed" -> "download_failed"
      [] pc = "log_upload_failed" -> "upload_failed"

\* Lines 154-160 and 199-207: the log call of the failure, then the raise
\* caught at line 74 (a raising log call ends there as well); leaving the
\* try of the upload runs its finally clause.
b_new_fail_log(ok) ==
    /\ b.pc \in {"log_download_failed", "log_upload_failed"}
    /\ fault_choice(ok)
    /\ b' = b_new_next
    /\ IF ok THEN log_event(b.cur, BEvent(b.pc)) ELSE no_log
    /\ IF b.pc = "log_upload_failed"
       THEN cleanup("yt_to_tg", b.cur) ELSE UNCHANGED temp_files
    /\ UNCHANGED <<tracks, next_id, snapshot, yt_playlist, tg_next_msg,
                   echoes>>
    /\ b_unchanged_but_files

\* A snapshot stored as the sorted ids.
b_snapshot_sorted ==
    /\ b.pc = "snapshot"
    /\ snapshot' = <<"list", SortedIds(Range(b.current_ids))>>
    /\ b' = BIdle
    /\ lingering' = [lingering EXCEPT !["yt_to_tg"] =
                                         in_pipeline(tracks, "yt_to_tg")]
    /\ UNCHANGED <<tracks, next_id, world_vars>>
    /\ UNCHANGED <<n_posts, bot_vars, a, engine_vars, identified, uploads,
                   temp_files, sp_vars>>
    /\ no_log

\* Lines 79-80: the snapshot becomes the id list fetched in this cycle, and
\* the cycle returns synced.
b_snapshot ==
    /\ b.pc = "snapshot"
    /\ snapshot' = <<"list", b.current_ids>>
    /\ b' = BIdle
    /\ lingering' = [lingering EXCEPT !["yt_to_tg"] =
                                         in_pipeline(tracks, "yt_to_tg")]
    /\ UNCHANGED <<tracks, next_id, world_vars>>
    /\ UNCHANGED <<n_posts, bot_vars, a, engine_vars, identified, uploads,
                   temp_files, sp_vars>>
    /\ no_log

\* The awaits of the try blocks whose finally clause removes the file.
BUploadPcs == {"retry_upload", "retry_mark", "new_upload", "new_mark",
               "log_synced", "log_upload_failed"}

\* The process is stopped while a yt_to_tg cycle is suspended at an await
\* (__main__ cancels the engine task) and started again: CancelledError
\* unwinds the cycle through its finally clauses, the cycle's local state is
\* lost, the database is kept.
b_cancel ==
    /\ b.pc # "idle"
    /\ b' = BIdle
    /\ IF b.pc \in BUploadPcs
       THEN cleanup("yt_to_tg", b.cur) ELSE UNCHANGED temp_files
    /\ UNCHANGED <<store_vars, world_vars>>
    /\ b_unchanged_but_files
    /\ no_log

\* run() in __main__ after the signal handler has run (lines 179-182 call
\* request_shutdown): once the bot is stopped it cancels the engine task and
\* awaits it.  The CancelledError is delivered at the await where the cycle
\* in flight is suspended; it is no Exception, so neither the handlers in
\* the worker nor engine.py line 82 catch it: it unwinds the cycle through
\* its finally clauses and ends every loop.
main_cancel_tasks ==
    /\ shutdown
    /\ engine_run = "running"
    /\ engine_run' = "cancelled"
    /\ loop' = [d \in Dirs |-> "stopped"]
    /\ inflight' = [d \in Dirs |-> 0]
    /\ b' = BIdle
    /\ IF b.pc \in BUploadPcs
       THEN cleanup("yt_to_tg", b.cur) ELSE UNCHANGED temp_files
    /\ UNCHANGED <<shutdown, force_events, elapsed, last_cycle, force_calls,
                   force_consumed>>
    /\ UNCHANGED <<store_vars, world_vars, bot_vars, a, hist_vars, sp_vars>>
    /\ no_log

\* ------------------------------------------------------------------------
\* sp_to_tg worker (sync/sp_to_tg.py)
\* ------------------------------------------------------------------------

\* Distinct tracks of the SP playlist.
NSpTracks == 1
SpTracks == 1..NSpTracks

\* The playlist item of SP track x as SpotifyClient.get_playlist_tracks
\* returns it.
SpMeta(x) == [id |-> x, name |-> 10 + x, artists |-> <<20 + x>>,
              duration_ms |-> (30 + x) * 1000]

\* A user adds a track to the SP playlist.
sp_user_add(x) ==
    /\ x \notin Range(sp_playlist)
    /\ sp_playlist' = Append(sp_playlist, x)
    /\ UNCHANGED <<store_vars, world_vars, bot_vars, a, b, engine_vars,
                   hist_vars, temp_files, sp_snapshot, c>>
    /\ no_log

\* A user removes a track from the SP playlist (no longer once the tracks
\* table has MaxRows rows).
sp_user_remove(x) ==
    /\ x \in Range(sp_playlist)
    /\ next_id <= MaxRows
    /\ sp_playlist' = SelectSeq(sp_playlist, LAMBDA y : y # x)
    /\ UNCHANGED <<store_vars, world_vars, bot_vars, a, b, engine_vars,
                   hist_vars, temp_files, sp_snapshot, c>>
    /\ no_log

CIdle == [pc |-> "idle", work |-> <<>>, cur |-> NULL, sp |-> NULL,
          vid |-> NULL, msg |-> NULL, current_ids |-> <<>>, new_ids |-> <<>>,
          synced |-> 0]

c_unchanged == UNCHANGED <<next_id, snapshot, yt_playlist, n_posts, bot_vars,
                           a, b, engine_vars, identified, lingering,
                           sp_playlist>>

\* Lines 50-52: the rows with an sp_track_id, in the order read.
SkipNoSpTrack(T, q) == SelectSeq(q, LAMBDA t : T[t].sp_track_id # NULL)

\* The retry loop moves to its next track, or the cycle goes on to Part 2.
c_retry_from(q) ==
    IF q = <<>>
    THEN [c EXCEPT !.pc = "fetch", !.work = <<>>, !.cur = NULL, !.vid = NULL,
                   !.msg = NULL]
    ELSE [c EXCEPT !.pc = "retry_syncing", !.work = q, !.cur = q[1],
                   !.vid = NULL, !.msg = NULL]

c_retry_next == c_retry_from(Tail(c.work))

\* The for loop over new_ids moves to the next id, or to the snapshot write.
c_new_from(q) ==
    IF q = <<>>
    THEN [c EXCEPT !.pc = "snapshot", !.new_ids = <<>>, !.cur = NULL,
                   !.sp = NULL, !.vid = NULL, !.msg = NULL]
    ELSE [c EXCEPT !.pc = "new_lookup", !.new_ids = q, !.cur = NULL,
                   !.sp = q[1], !.vid = NULL, !.msg = NULL]

c_new_next == c_new_from(Tail(c.new_ids))

\* Lines 55 and 76: synced += 1 after _retry_track or _sync_track returned.
c_counted(next) == [next EXCEPT !.synced = c.synced + 1]

\* process_new_tracks, lines 49-52: the rows read for Part 1.
c_begin ==
    /\ c.pc = "idle"
    /\ c' = c_retry_from(
              SkipNoSpTrack(tracks,
                            SortedIds(get_pending_tracks(tracks, "sp_to_tg"))))
    /\ UNCHANGED <<tracks, tg_next_msg, echoes, uploads, faults, temp_files,
                   sp_snapshot>>
    /\ c_unchanged
    /\ no_log

\* _retry_track, line 89.
c_retry_syncing ==
    /\ c.pc = "retry_syncing"
    /\ tracks' = update_track(tracks, c.cur, [status |-> "syncing"])
    /\ c' = [c EXCEPT !.pc = "retry_search"]
    /\ UNCHANGED <<tg_next_msg, echoes, uploads, faults, temp_files,
                   sp_snapshot>>
    /\ c_unchanged
    /\ no_log

\* Lines 92-97: find_best_match raises, finds nothing (m = NULL: the track
\* is failed and the call raises) or returns video m.
c_retry_search(ok, m) ==
    /\ c.pc = "retry_search"
    /\ IF ~ok
       THEN c' = c_retry_next /\ UNCHANGED tracks
       ELSE IF m = NULL
       THEN /\ tracks' = mark_failed(tracks, c.cur, "no_yt_match_for_download")
            /\ c' = c_retry_next
       ELSE /\ c' = [c EXCEPT !.pc = "retry_download", !.vid = m]
            /\ UNCHANGED tracks
    /\ UNCHANGED <<tg_next_msg, echoes, uploads, faults, temp_files,
                   sp_snapshot>>
    /\ c_unchanged
    /\ no_log

\* Lines 98-105: the download returns, or raises and the track is failed.
c_retry_download(ok) ==
    /\ c.pc = "retry_download"
    /\ IF ok
       THEN /\ obtain("sp_to_tg", c.cur)
            /\ c' = [c EXCEPT !.pc = "retry_upload"]
            /\ UNCHANGED tracks
       ELSE /\ tracks' = mark_failed(tracks, c.cur, "download_failed")
            /\ c' = c_retry_next
            /\ UNCHANGED temp_files
    /\ UNCHANGED <<tg_next_msg, echoes, uploads, faults, sp_snapshot>>
    /\ c_unchanged
    /\ no_log

\* Lines 107-115 and 121-126: send_audio returns, or raises and the track is
\* failed and the finally clause removes the file.
c_retry_upload(ok) ==
    /\ c.pc = "retry_upload"
    /\ IF ok
       THEN /\ send_audio(c.vid)
            /\ c' = [c EXCEPT !.pc = "retry_mark", !.msg = tg_next_msg]
            /\ UNCHANGED <<tracks, temp_files>>
       ELSE /\ tracks' = mark_failed(tracks, c.cur, "upload_failed")
            /\ cleanup("sp_to_tg", c.cur)
            /\ c' = c_retry_next
            /\ UNCHANGED <<tg_next_msg, echoes, uploads>>
    /\ UNCHANGED <<faults, sp_snapshot>>
    /\ c_unchanged
    /\ no_log

\* mark_synced(track.id, tg_message_id=message_id): the UPDATE raises
\* IntegrityError when another row holds the message id, and the handler of
\* the surrounding try marks the track failed.
c_write_synced ==
    IF unique_ok(tracks, c.cur, c.msg, NULL)
    THEN mark_synced(tracks, c.cur, [tg_message_id |-> c.msg])
    ELSE mark_failed(tracks, c.cur, "upload_failed")

\* Lines 117 and 121-126.
c_retry_mark ==
    /\ c.pc = "retry_mark"
    /\ tracks' = c_write_synced
    /\ cleanup("sp_to_tg", c.cur)
    /\ c' = IF unique_ok(tracks, c.cur, c.msg, NULL)
            THEN c_counted(c_retry_next) ELSE c_retry_next
    /\ UNCHANGED <<tg_next_msg, echoes, uploads, faults, sp_snapshot>>
    /\ c_unchanged
    /\ no_log

\* Lines 61-71: the playlist fetch (raising ends the cycle), the stored
\* snapshot, and the loop over the new ids.
c_fetch(ok) ==
    /\ c.pc = "fetch"
    /\ c' = IF ok
            THEN [c_new_from(new_ids_of(sp_playlist, sp_snapshot))
                    EXCEPT !.current_ids = sp_playlist]
            ELSE CIdle
    /\ UNCHANGED <<tracks, tg_next_msg, echoes, uploads, faults, temp_files,
                   sp_snapshot>>
    /\ c_unchanged
    /\ no_log

\* _sync_track, lines 132-135: a synced or duplicate row of this SP track
\* makes the call return (and line 76 counts the track).
c_new_lookup ==
    /\ c.pc = "new_lookup"
    /\ LET existing == get_track_by_sp_track_id(tracks, c.sp)
       IN c' = IF /\ existing # NULL
                  /\ tracks[existing].status \in {"synced", "duplicate"}
               THEN c_counted(c_new_next)
               ELSE [c EXCEPT !.pc = "new_create"]
    /\ UNCHANGED <<tracks, tg_next_msg, echoes, uploads, faults, temp_files,
                   sp_snapshot>>
    /\ c_unchanged
    /\ no_log

\* The row _sync_track writes for SP track x and direction dir, lines
\* 137-152 and 162-170.
SpRow(dir, x) ==
    NewSpTrack(dir, x, SpMeta(x).name,
               IF SpMeta(x).artists # <<>> THEN SpMeta(x).artists[1] ELSE NULL,
               IF SpMeta(x).duration_ms # NULL
               THEN SpMeta(x).duration_ms \div 1000 ELSE NULL)

\* Lines 144-152: the sp_to_tg row.
c_new_create ==
    /\ c.pc = "new_create"
    /\ tracks' = tracks @@ (next_id :> SpRow("sp_to_tg", c.sp))
    /\ next_id' = next_id + 1
    /\ c' = [c EXCEPT !.pc = "new_fanout", !.cur = next_id]
    /\ UNCHANGED <<tg_next_msg, echoes, uploads, faults, temp_files,
                   sp_snapshot>>
    /\ UNCHANGED <<snapshot, yt_playlist, n_posts, bot_vars, a, b, engine_vars,
                   identified, lingering, sp_playlist>>
    /\ no_log

\* A fan-out that looks at no other row.
should_fan_out_always(T, sp_id, id) == TRUE

\* Lines 156-160: no fan-out when the row of this SP track is another one.
should_fan_out(T, sp_id, id) ==
    LET existing_yt == get_track_by_sp_track_id(T, sp_id)
    IN ~(existing_yt # NULL /\ existing_yt # id)

\* Lines 156-171: the fan-out test and the sp_to_yt companion row.
c_new_fanout ==
    /\ c.pc = "new_fanout"
    /\ IF should_fan_out(tracks, c.sp, c.cur)
       THEN /\ tracks' = tracks @@ (next_id :> SpRow("sp_to_yt", c.sp))
            /\ next_id' = next_id + 1
       ELSE UNCHANGED <<tracks, next_id>>
    /\ c' = [c EXCEPT !.pc = "new_search"]
    /\ UNCHANGED <<tg_next_msg, echoes, uploads, faults, temp_files,
                   sp_snapshot>>
    /\ UNCHANGED <<snapshot, yt_playlist, n_posts, bot_vars, a, b, engine_vars,
                   identified, lingering, sp_playlist>>
    /\ no_log

\* Lines 174-189: find_best_match raises, finds nothing (the track is
\* failed) or returns video m (the track is syncing with that video id).
c_new_search(ok, m) ==
    /\ c.pc = "new_search"
    /\ IF ~ok
       THEN c' = c_new_next /\ UNCHANGED tracks
       ELSE IF m = NULL
       THEN /\ tracks' = mark_failed(tracks, c.cur, "no_yt_match_for_download")
            /\ c' = [c EXCEPT !.pc = "log_no_match"]
       ELSE /\ tracks' = update_track(tracks, c.cur,
                                      [status |-> "syncing", yt_video_id |-> m])
            /\ c' = [c EXCEPT !.pc = "new_download", !.vid = m]
    /\ UNCHANGED <<tg_next_msg, echoes, uploads, faults, temp_files,
                   sp_snapshot>>
    /\ c_unchanged
    /\ no_log

\* Lines 190-196.
c_new_download(ok) ==
    /\ c.pc = "new_download"
    /\ IF ok
       THEN /\ obtain("sp_to_tg", c.cur)
            /\ c' = [c EXCEPT !.pc = "new_upload"]
            /\ UNCHANGED tracks
       ELSE /\ tracks' = mark_failed(tracks, c.cur, "download_failed")
            /\ c' = [c EXCEPT !.pc = "log_download_failed"]
            /\ UNCHANGED temp_files
    /\ UNCHANGED <<tg_next_msg, echoes, uploads, faults, sp_snapshot>>
    /\ c_unchanged
    /\ no_log

\* Lines 206-215 and 239-241.
c_new_upload(ok) ==
    /\ c.pc = "new_upload"
    /\ IF ok
       THEN /\ send_audio(c.vid)
            /\ c' = [c EXCEPT !.pc = "new_mark", !.msg = tg_next_msg]
            /\ UNCHANGED tracks
       ELSE /\ tracks' = mark_failed(tracks, c.cur, "upload_failed")
            /\ c' = [c EXCEPT !.pc = "log_upload_failed"]
            /\ UNCHANGED <<tg_next_msg, echoes, uploads>>
    /\ UNCHANGED <<faults, temp_files, sp_snapshot>>
    /\ c_unchanged
    /\ no_log

\* Lines 217-220 and 239-241.
c_new_mark ==
    /\ c.pc = "new_mark"
    /\ tracks' = c_write_synced
    /\ c' = [c EXCEPT !.pc = IF unique_ok(tracks, c.cur, c.msg, NULL)
                             THEN "log_synced" ELSE "log_upload_failed"]
    /\ UNCHANGED <<tg_next_msg, echoes, uploads, faults, temp_files,
                   sp_snapshot>>
    /\ c_unchanged
    /\ no_log

\* Lines 221-230 and 249-250: the track_synced log call, then the finally
\* clause; when the call raises, the handler at line 239 marks the track
\* failed.
c_new_log(ok) ==
    /\ c.pc = "log_synced"
    /\ fault_choice(ok)
    /\ IF ok
       THEN /\ log_event(c.cur, "track_synced")
            /\ cleanup("sp_to_tg", c.cur)
            /\ c' = c_counted(c_new_next)
            /\ UNCHANGED tracks
       ELSE /\ tracks' = mark_failed(tracks, c.cur, "upload_failed")
            /\ c' = [c EXCEPT !.pc = "log_upload_failed"]
            /\ UNCHANGED temp_files
            /\ no_log
    /\ UNCHANGED <<tg_next_msg, echoes, uploads, sp_snapshot>>
    /\ c_unchanged

\* The event of the log call at lines 177, 197 and 242.
CEvent(pc) ==
    CASE pc = "log_no_match" -> "no_yt_match_for_download"
      [] pc = "log_download_failed" -> "download_failed"
      [] pc = "log_upload_failed" -> "upload_failed"

\* Lines 177-184, 197-203 and 242-250: the log call of the failure, then
\* the raise caught at line 77 (a raising log call ends there as well);
\* leaving the try of the upload runs its finally clause.
c_new_fail_log(ok) ==
    /\ c.pc \in {"log_no_match", "log_download_failed", "log_upload_failed"}
    /\ fault_choice(ok)
    /\ c' = c_new_next
    /\ IF ok THEN log_event(c.cur, CEvent(c.pc)) ELSE no_log
    /\ IF c.pc = "log_upload_failed"
       THEN cleanup("sp_to_tg", c.cur) ELSE UNCHANGED temp_files
    /\ UNCHANGED <<tracks, tg_next_msg, echoes, uploads, sp_snapshot>>
    /\ c_unchanged

\* Lines 82-83: the snapshot becomes the id list fetched in this cycle, and
\* the cycle returns synced.
c_snapshot ==
    /\ c.pc = "snapshot"
    /\ sp_snapshot' = <<"list", c.current_ids>>
    /\ c' = CIdle
    /\ UNCHANGED <<tracks, tg_next_msg, echoes, uploads, faults, temp_files>>
    /\ c_unchanged
    /\ no_log

\* ------------------------------------------------------------------------
\* Track identification (sync/identifier.py)
\* ------------------------------------------------------------------------

\* A str is the sequence of its characters; a value that may be None is
\* <<"none">> or <<"str", s>>, and a TrackInfo that may be None is
\* <<"none">> or <<"info", [artist, title, method]>>.
Absent == <<"none">>
Str(s) == <<"str", s>>
TrackInfo(artist, title, method) ==
    <<"info", [artist |-> artist, title |-> title, method |-> method]>>

\* Python's truth of a str | None: neither None nor "".
truthy(x) == x[1] = "str" /\ x[2] # << >>

\* File names are written with these characters, up to MaxNameLen of them.
MaxNameLen == 3
Chars == {"a", " ", "-", ".", "[", "]"}
Names == UNION {[1..n -> Chars] : n \in 0..MaxNameLen}

\* str.strip() for the one whitespace character of Chars.
RECURSIVE lstrip(_)
lstrip(s) == IF s # << >> /\ Head(s) = " " THEN lstrip(Tail(s)) ELSE s

RECURSIVE rstrip(_)
rstrip(s) ==
    IF s # << >> /\ s[Len(s)] = " "
    THEN rstrip(SubSeq(s, 1, Len(s) - 1)) ELSE s

strip(s) == lstrip(rstrip(s))

\* str.find and str.rfind of one character, counted from 1; 0 when absent.
find(s, ch) ==
    IF \E i \in 1..Len(s) : s[i] = ch
    THEN CHOOSE i \in 1..Len(s) : s[i] = ch /\ \A j \in 1..(i - 1) : s[j] # ch
    ELSE 0

rfind(s, ch) ==
    IF \E i \in 1..Len(s) : s[i] = ch
    THEN CHOOSE i \in 1..Len(s) :
             s[i] = ch /\ \A j \in (i + 1)..Len(s) : s[j] # ch
    ELSE 0

\* Path(file_name).stem for a name without "/": the name "." is the empty
\* path, and the suffix starts at the last dot unless that dot is the first
\* or the last character.
stem_of(name) ==
    LET i == rfind(name, ".")
    IN IF name = <<".">> THEN << >>
       ELSE IF 1 < i /\ i < Len(name) THEN SubSeq(name, 1, i - 1)
       ELSE name

\* re.sub(r"\[.*?\]", "", s): every "[" that has a "]" after it goes, with
\* the shortest text up to a "]".
RECURSIVE sub_brackets(_)
sub_brackets(s) ==
    IF s = << >> THEN << >>
    ELSE LET close == find(Tail(s), "]")
         IN IF Head(s) = "[" /\ close # 0
            THEN sub_brackets(SubSeq(s, close + 2, Len(s)))
            ELSE <<Head(s)>> \o sub_brackets(Tail(s))

\* _SEPARATORS.split(s, maxsplit=1): the text before the whitespace that
\* precedes the first dash and the text after the whitespace that follows
\* it, or the one part s.
split_separator(s) ==
    LET d == find(s, "-")
    IN IF d = 0 THEN <<s>>
       ELSE <<rstrip(SubSeq(s, 1, d - 1)), lstrip(SubSeq(s, d + 1, Len(s)))>>

\* identify_from_id3, lines 21-57: tags is what mutagen reads from the file:
\* "unreadable" (MutagenFile returns None, has no tags, or raises) or the
\* title and artist entries of the tags, each of which may be missing.
identify_from_id3(tags) ==
    IF tags[1] = "tags" /\ truthy(tags[2].title)
    THEN TrackInfo(tags[2].artist, tags[2].title[2], "id3")
    ELSE Absent

\* identify_from_tg_metadata, lines 60-65.
identify_from_tg_metadata(performer, title) ==
    IF truthy(title) THEN TrackInfo(performer, title[2], "tg_metadata")
    ELSE Absent

\* identify_from_filename, lines 71-88.  No name over Chars holds "(", so
\* the "(Official ...)" substitution of line 76 leaves only its strip().
identify_from_filename(file_name) ==
    IF ~truthy(file_name) THEN Absent
    ELSE LET stem == strip(sub_brackets(strip(stem_of(file_name[2]))))
             parts == split_separator(stem)
         IN IF /\ Len(parts) = 2
               /\ strip(parts[1]) # << >>
               /\ strip(parts[2]) # << >>
            THEN TrackInfo(Str(strip(parts[1])), strip(parts[2]), "filename")
            ELSE IF stem # << >> THEN TrackInfo(Absent, stem, "filename")
            ELSE Absent

\* A pipeline that reads the file name before the provided title.
identify_track_name_first(file_path, tags, tg_performer, tg_title, file_name) ==
    LET id3 == IF truthy(file_path) THEN identify_from_id3(tags) ELSE Absent
        name == identify_from_filename(file_name)
        tg == identify_from_tg_metadata(tg_performer, tg_title)
    IN IF id3 # Absent THEN id3
       ELSE IF name # Absent THEN name
       ELSE tg

\* identify_track, lines 91-115.
identify_track(file_path, tags, tg_performer, tg_title, file_name) ==
    LET id3 == IF truthy(file_path) THEN identify_from_id3(tags) ELSE Absent
        tg == identify_from_tg_metadata(tg_performer, tg_title)
        name == identify_from_filename(file_name)
    IN IF id3 # Absent THEN id3
       ELSE IF tg # Absent THEN tg
       ELSE name

\* The arguments a call is made with, and what the file at file_path holds.
OptNames == {Absent} \cup {Str(n) : n \in Names}
OptTexts == {Absent, Str(<< >>), Str(<<"a">>)}
FileTags ==
    {<<"unreadable">>} \cup
    {<<"tags", [title |-> t, artist |-> p]>> : t \in OptTexts,
                                               p \in {Absent, Str(<<"b">>)}}
IdentifyArgs ==
    [file_path : {Absent, Str(<<"a">>)},
     tags : FileTags,
     tg_performer : {Absent, Str(<<"b">>)},
     tg_title : OptTexts,
     file_name : OptNames]

\* A call of identify_track; a behaviour follows one call.
identify_call(args) ==
    /\ identified = << >>
    /\ identified' =
           <<args, identify_track(args.file_path, args.tags,
                                  args.tg_performer, args.tg_title,
                                  args.file_name)>>
    /\ UNCHANGED <<engine_vars, store_vars, sync_log, world_vars, bot_vars,
                   a, b, uploads, lingering, temp_files, sp_vars>>

vars == <<engine_vars, app_vars>>

StoreInit ==
    /\ tracks = [t \in {} |-> NULL]
    /\ next_id = 1
    /\ sync_log = {}
    /\ snapshot = <<"none">>
    /\ yt_playlist = <<>>
    /\ tg_next_msg = 1
    /\ echoes = {}
    /\ n_posts = 0
    /\ faults = 0
    /\ handlers = {}
    /\ raised = {}
    /\ op = NULL
    /\ n_ops = 0
    /\ a = AIdle
    /\ b = BIdle
    /\ identified = << >>
    /\ uploads = [v \in AllVideos |-> 0]
    /\ lingering = [d \in Dirs |-> {}]
    /\ temp_files = [w \in Workers |-> {}]
    /\ sp_playlist = <<>>
    /\ sp_snapshot = <<"none">>
    /\ c = CIdle

Init == EngineInit /\ StoreInit

EngineNext ==
    \/ request_shutdown
    \/ \E d \in AllDirs : force_sync(d)
    \/ \E d \in Dirs : run_loop_start(d)
    \/ \E d \in Dirs : run_cycle_return(d)
    \/ \E d \in Dirs : run_cycle_raise(d)
    \/ \E d \in Dirs : interval_elapsed(d)
    \/ \E d \in Dirs : wait_return(d)
    \/ \E d \in Dirs : run_loop_resume(d)
    \/ run_return

SpecEngine == Init /\ [][EngineNext]_vars

\* The event loop runs every task that is ready, and a cycle that was started
\* ends (returns or raises).  Nothing makes time pass, the operator force a
\* sync or the process receive a signal: those three carry no fairness.
EngineFairness ==
    \A d \in Dirs :
        /\ WF_vars(run_loop_start(d))
        /\ WF_vars(run_cycle_return(d) \/ run_cycle_raise(d))
        /\ WF_vars(wait_return(d))
        /\ WF_vars(run_loop_resume(d))

FairSpecEngine ==
    Init /\ [][EngineNext]_vars /\ EngineFairness /\ WF_vars(run_return)

\* ------------------------------------------------------------------------
\* The application: store, bot and the two workers
\* ------------------------------------------------------------------------

BotNext ==
    \/ \E f \in Files, kind \in {"audio", "text", "other_chat"} :
          channel_post(f, kind)
    \/ \E h \in handlers : handler_lookup_file(h)
    \/ \E h \in handlers : handler_lookup_msg(h)
    \/ \E h \in handlers : handler_create(h)
    \/ \E h \in handlers, ok \in BOOLEAN : handler_log(h, ok)
    \/ \E dir \in {None, "tg_to_yt", "yt_to_tg"} : cmd_retry_all(dir)
    \/ \E id \in 1..(next_id - 1) : cmd_retry_lookup(id)
    \/ cmd_retry_reset
    \/ \E id \in 1..(next_id - 1) : cmd_delete(id)

TgToYtNext ==
    \/ \E ok \in BOOLEAN : a_begin(ok)
    \/ a_raise
    \/ a_identifying
    \/ \E ok \in BOOLEAN : a_download(ok)
    \/ a_searching
    \/ \E ok \in BOOLEAN, m \in Videos \cup {NULL} : a_search(ok, m)
    \/ a_dup_update
    \/ \E ok \in BOOLEAN : a_add(ok)
    \/ a_mark_synced
    \/ \E ok \in BOOLEAN : a_log(ok)
    \/ a_except
    \/ \E ok \in BOOLEAN : a_except_log(ok)
    \/ a_return

\* Part 1 of process_new_tracks: the tracks read as pending.
YtToTgRetryNext ==
    \/ b_retry_syncing
    \/ \E ok \in BOOLEAN : b_retry_download(ok)
    \/ \E ok \in BOOLEAN : b_retry_upload(ok)
    \/ b_retry_mark

\* The start of process_new_tracks and its Part 2: the playlist diff.
YtToTgNewNext ==
    \/ b_begin
    \/ \E ok \in BOOLEAN : b_fetch(ok)
    \/ b_new_lookup
    \/ b_new_create
    \/ b_new_syncing
    \/ \E ok \in BOOLEAN : b_new_download(ok)
    \/ \E ok \in BOOLEAN : b_new_upload(ok)
    \/ b_new_mark
    \/ \E ok \in BOOLEAN : b_new_log(ok)
    \/ \E ok \in BOOLEAN : b_new_fail_log(ok)
    \/ b_snapshot

YtToTgNext == YtToTgRetryNext \/ YtToTgNewNext

\* Part 1 of the sp_to_tg cycle.
SpToTgRetryNext ==
    \/ c_retry_syncing
    \/ \E ok \in BOOLEAN, m \in Videos \cup {NULL} : c_retry_search(ok, m)
    \/ \E ok \in BOOLEAN : c_retry_download(ok)
    \/ \E ok \in BOOLEAN : c_retry_upload(ok)
    \/ c_retry_mark

\* The start of the sp_to_tg cycle and its Part 2: the playlist diff.
SpToTgNewNext ==
    \/ c_begin
    \/ \E ok \in BOOLEAN : c_fetch(ok)
    \/ c_new_lookup
    \/ c_new_create
    \/ c_new_fanout
    \/ \E ok \in BOOLEAN, m \in Videos \cup {NULL} : c_new_search(ok, m)
    \/ \E ok \in BOOLEAN : c_new_download(ok)
    \/ \E ok \in BOOLEAN : c_new_upload(ok)
    \/ c_new_mark
    \/ \E ok \in BOOLEAN : c_new_log(ok)
    \/ \E ok \in BOOLEAN : c_new_fail_log(ok)
    \/ c_snapshot

SpToTgNext == SpToTgRetryNext \/ SpToTgNewNext

\* The SP playlist with tracks added and removed, and the sp_to_tg worker:
\* a row its cycle leaves pending is retried by Part 1 of the next cycle.
NextSpToTg ==
    \/ \E x \in SpTracks : sp_user_add(x)
    \/ \E x \in SpTracks : sp_user_remove(x)
    \/ SpToTgNext

SpecSpToTg == Init /\ [][NextSpToTg]_vars

\* One audio post, one YT video, one SP track, one /retry_all, and the three
\* workers, a cycle of one direction running while the other two directions
\* wait between cycles.
NextTransfers ==
    \/ n_posts = 0 /\ channel_post(1, "audio")
    \/ \E h \in handlers : handler_lookup_file(h)
    \/ \E h \in handlers : handler_lookup_msg(h)
    \/ \E h \in handlers : handler_create(h)
    \/ \E h \in handlers : handler_log(h, TRUE)
    \/ \E v \in Videos : yt_user_add(v)
    \/ \E x \in SpTracks : sp_user_add(x)
    \/ n_ops = 0 /\ cmd_retry_all(None)
    \/ (b.pc = "idle" /\ c.pc = "idle") /\ TgToYtNext
    \/ (a.pc = "idle" /\ c.pc = "idle") /\ YtToTgNext
    \/ (a.pc = "idle" /\ b.pc = "idle") /\ SpToTgNext

SpecTransfers == Init /\ [][NextTransfers]_vars

WorldNext ==
    \/ \E v \in Videos : yt_user_add(v)
    \/ \E m \in echoes, from_bot \in BOOLEAN : echo_post(m, from_bot)

Next ==
    \/ WorldNext
    \/ BotNext
    \/ TgToYtNext
    \/ YtToTgNext

\* The channel, the bot, the operator and the tg_to_yt worker.
NextTgToYt == BotNext \/ TgToYtNext

SpecTgToYt == Init /\ [][NextTgToYt]_vars

\* The YT playlist, the channel with the bot's own uploads, the bot, the
\* operator and the yt_to_tg worker.
NextYtToTg == WorldNext \/ BotNext \/ YtToTgNext

SpecYtToTg == Init /\ [][NextYtToTg]_vars

\* The YT playlist with videos added, and the yt_to_tg worker stopped and
\* started again at any point of a cycle.
NextRestart ==
    \/ \E v \in SourceVideos : yt_user_add(v)
    \/ YtToTgNewNext
    \/ b_cancel

SpecRestart == Init /\ [][NextRestart]_vars

\* The process from start to shutdown with the yt_to_tg direction: videos
\* are added to the playlist, the loop starts a cycle only while shutdown is
\* not set (engine.py, line 79) and a started cycle goes on, the signal
\* arrives at any moment, and run() then cancels the engine task at any
\* later moment.
NextShutdown ==
    \/ \E v \in SourceVideos : yt_user_add(v)
    \/ request_shutdown
    \/ main_cancel_tasks
    \/ /\ engine_run = "running"
       /\ b.pc = "idle" => ~shutdown
       /\ YtToTgNewNext

SpecShutdown == Init /\ [][NextShutdown]_vars

\* The two YT directions running concurrently, as run()'s gather schedules
\* them (engine.py, lines 67-72): audio posts, the bot's handlers for them,
\* the tg_to_yt worker and the discovery part of the yt_to_tg worker.
NextCross ==
    \/ \E f \in Files : channel_post(f, "audio")
    \/ \E h \in handlers : handler_lookup_file(h)
    \/ \E h \in handlers : handler_lookup_msg(h)
    \/ \E h \in handlers : handler_create(h)
    \/ \E h \in handlers : handler_log(h, TRUE)
    \/ TgToYtNext
    \/ YtToTgNewNext

SpecCross == Init /\ [][NextCross]_vars

\* The channel's audio posts, the bot, /retry <id> and the tg_to_yt worker, whose loop
\* keeps running cycles (engine.py, lines 79-84) and whose calls all return
\* or raise: a step of the worker that can be taken is taken.
NextSettle ==
    \/ handlers = {} /\ \E f \in Files : channel_post(f, "audio")
    \/ \E h \in handlers : handler_lookup_file(h)
    \/ \E h \in handlers : handler_lookup_msg(h)
    \/ \E h \in handlers : handler_create(h)
    \/ \E h \in handlers : handler_log(h, TRUE)
    \/ \E id \in {t \in DOMAIN tracks : tracks[t].status = "failed"} :
          cmd_retry_lookup(id)
    \/ cmd_retry_reset
    \/ TgToYtNext

FairSpecSettle == Init /\ [][NextSettle]_vars /\ WF_vars(TgToYtNext)

NextIdentify == \E args \in IdentifyArgs : identify_call(args)

SpecIdentify == Init /\ [][NextIdentify]_vars

\* The YT playlist with videos added and removed, and the yt_to_tg worker
\* with no operator: no track is ever pending when a cycle starts, and Part 1
\* of the cycle has nothing to do.
NextPlaylist ==
    \/ \E v \in SourceVideos : yt_user_add(v)
    \/ \E v \in SourceVideos : yt_user_remove(v)
    \/ YtToTgNewNext

SpecPlaylist == Init /\ [][NextPlaylist]_vars

Spec == Init /\ [][Next]_vars

\* ------------------------------------------------------------------------
\* Claims about the scheduler
\* ------------------------------------------------------------------------

\* C1: for every enabled direction at most one cycle is in flight at any
\* time, and a cycle starts only when none of that direction is in flight,
\* under every interleaving of interval expiry, force_sync and
\* request_shutdown.
C1_OneCyclePerDirection ==
    \A d \in Dirs :
        /\ inflight[d] <= 1
        /\ inflight[d] = (IF loop[d] = "cycle" THEN 1 ELSE 0)

\* A second cycle of a direction is in flight while a force signal is latched.
C1_Witness ==
    \E d \in Dirs :
        loop[d] = "cycle" /\ inflight[d] = 1 /\ last_cycle[d] # "none"
        /\ force_events[d]

\* C2: a force_sync(d) call does not touch the cycle in flight, and once d's
\* force signal is set (shutdown not requested) the loop consumes it and
\* starts the next cycle without the interval having to elapse.
C2_ForceStartsNextCycle ==
    /\ [][\A d \in Dirs :
            force_calls'[d] > force_calls[d] =>
                /\ loop'[d] = loop[d]
                /\ inflight'[d] = inflight[d]
                /\ last_cycle'[d] = last_cycle[d]]_vars
    /\ \A d \in Dirs :
            (force_events[d] /\ ~shutdown)
                ~> (shutdown \/ (~force_events[d] /\ loop[d] = "cycle"))

\* A cycle that followed a consumed force signal is in flight and the timer
\* of the wait before it never fired.
C2_Witness ==
    \E d \in Dirs :
        /\ loop[d] = "cycle" /\ last_cycle[d] # "none"
        /\ force_consumed[d] >= 1 /\ ~elapsed[d] /\ ~shutdown

\* C3: the force signal is cleared when consumed: a cycle that starts after
\* the compound wait starts with the force flag false, and the flag is
\* consumed at most once per force_sync call.
C3_ForceLatchedAndCleared ==
    /\ [](\A d \in Dirs : force_consumed[d] <= force_calls[d])
    /\ [][\A d \in Dirs :
            (loop[d] = "resumed" /\ loop'[d] # "resumed") =>
                ~force_events'[d]]_vars

\* One force_sync call was consumed once and the forced cycle is in flight.
C3_Witness ==
    \E d \in Dirs :
        /\ force_calls[d] = 1 /\ force_consumed[d] = 1
        /\ loop[d] = "cycle" /\ ~force_events[d]

C5_ShutdownTerminates ==
    shutdown ~> (engine_run = "returned" /\ \A d \in Dirs : loop[d] = "stopped")

\* run() has returned and some loop left its wait with the timer not fired.
C5_Witness ==
    /\ engine_run = "returned"
    /\ \E d \in Dirs : last_cycle[d] # "none" /\ ~elapsed[d] /\ ~force_events[d]
                        /\ force_consumed[d] = 0

\* ------------------------------------------------------------------------
\* Track store invariants
\* ------------------------------------------------------------------------

\* C6: in every reachable state, every track has synced_at non-null if and
\* only if its status is synced.
C6_SyncedAtIffSynced ==
    \A t \in DOMAIN tracks :
        tracks[t].synced_at <=> tracks[t].status = "synced"

\* C7: in every reachable state, every track that is neither synced nor
\* duplicate has retry_count <= max_retries.
C7_RetryCountBounded ==
    \A t \in DOMAIN tracks :
        tracks[t].status \notin {"synced", "duplicate"}
            => tracks[t].retry_count <= tracks[t].max_retries

IntoFailed(t) == tracks[t].status # "failed" /\ tracks'[t].status = "failed"

IntoRetry(t) ==
    tracks[t].status # "retry_scheduled" /\ tracks'[t].status = "retry_scheduled"

\* C8: retry_count counts the transitions into failed: a step that takes a
\* track into failed adds exactly 1 to retry_count and sets failure_reason,
\* a step into retry_scheduled clears failure_reason, and no other step
\* changes retry_count.
C8_RetryCountCountsFailures ==
    [][\A t \in DOMAIN tracks \cap DOMAIN tracks' :
          /\ IntoFailed(t) =>
                /\ tracks'[t].retry_count = tracks[t].retry_count + 1
                /\ tracks'[t].failure_reason # None
          /\ IntoRetry(t) => tracks'[t].failure_reason = None
          /\ ~IntoFailed(t) =>
                tracks'[t].retry_count = tracks[t].retry_count]_vars

SharesTgId(r, q) ==
    \/ r.tg_file_unique_id # NULL /\ r.tg_file_unique_id = q.tg_file_unique_id
    \/ r.tg_message_id # NULL /\ r.tg_message_id = q.tg_message_id

\* C9: no two tracks share a non-null tg_file_unique_id or a non-null
\* tg_message_id, and no step adds a row whose tg_file_unique_id or
\* tg_message_id an existing row already records, whatever the interleaving
\* of channel-post handlers with yt_to_tg cycles.
C9_TgIdsUnique ==
    /\ [](\A t, u \in DOMAIN tracks :
            t # u => ~SharesTgId(tracks[t], tracks[u]))
    /\ [][\A n \in DOMAIN tracks' \ DOMAIN tracks :
            \A t \in DOMAIN tracks : ~SharesTgId(tracks'[n], tracks[t])]_vars

\* The channel has carried MaxPosts user posts and one upload of the
\* yt_to_tg worker, whose own post is still undelivered.  Every handler has
\* returned without an exception, no row was deleted, and the rows ever
\* created are the worker's and one tg_to_yt row: the other user post was of
\* the file already recorded and added nothing.
C9_Witness ==
    /\ n_posts = MaxPosts
    /\ tg_next_msg = MaxPosts + 2
    /\ echoes # {}
    /\ handlers = {}
    /\ raised = {}
    /\ n_ops = 0
    /\ next_id = 3
    /\ \E t, u \in DOMAIN tracks :
          /\ tracks[t].direction = "tg_to_yt"
          /\ tracks[u].direction = "yt_to_tg"
          /\ tracks[u].tg_message_id \in echoes

WorkerStep == a' # a \/ b' # b

\* C11: a track whose status is synced or duplicate keeps that status in
\* every step of a worker cycle: only an operator action changes it.
C11_TerminalStatusKept ==
    [][WorkerStep =>
         \A t \in DOMAIN tracks \cap DOMAIN tracks' :
            tracks[t].status \in {"synced", "duplicate"}
                => tracks'[t].status = tracks[t].status]_vars

\* The positions of a yt_to_tg cycle between the creation of a track for a
\* new video id and the end of that item: b.cur is the track created.
BNewPcs == {"new_syncing", "new_download", "new_upload", "new_mark",
            "log_synced", "log_download_failed", "log_upload_failed"}

\* A track that a step changes or removes.
Touched(t) == t \notin DOMAIN tracks' \/ tracks'[t] # tracks[t]

\* C12: the work list a yt_to_tg cycle reads is exactly the tracks with
\* direction yt_to_tg and status pending or retry_scheduled; the list only
\* shrinks while the cycle runs; and a step of the cycle touches an existing
\* track only if it is in the work list or is the track this cycle created
\* for the new video id it is processing.
C12_CycleTouchesOnlyItsWorkList ==
    [][/\ (b.pc = "idle" /\ b' # b) =>
            Range(b'.work) =
              {t \in DOMAIN tracks :
                 /\ tracks[t].direction = "yt_to_tg"
                 /\ tracks[t].status \in {"pending", "retry_scheduled"}}
       /\ (b.pc # "idle" /\ b' # b) => Range(b'.work) \subseteq Range(b.work)
       /\ (b.pc = "new_create" /\ b' # b) =>
            b'.cur \in DOMAIN tracks' \ DOMAIN tracks
       /\ (b.pc \in BNewPcs /\ b'.pc \in BNewPcs) => b'.cur = b.cur
       /\ b' # b =>
            \A t \in DOMAIN tracks :
               Touched(t) =>
                 \/ t \in Range(b.work)
                 \/ b.pc \in BNewPcs /\ t = b.cur]_vars

\* The retry phase of a yt_to_tg cycle has moved the track of its work list
\* to syncing while a pending tg_to_yt track stands beside it.
C12_Witness ==
    /\ b.pc = "retry_download"
    /\ b.cur \in DOMAIN tracks
    /\ tracks[b.cur].status = "syncing"
    /\ \E t \in DOMAIN tracks :
          tracks[t].direction = "tg_to_yt" /\ tracks[t].status = "pending"

\* The worker steps of the no-match branch of the track a.cur: the search
\* that finds no match, and the log call that follows it.
NoMatchFound == a.pc = "search" /\ a'.pc = "log_no_match"
NoMatchLogged == a.pc = "log_no_match" /\ a' # a /\ a'.pc # "except"

DuplicateFound == a.pc = "search" /\ a'.pc = "dup_update"
DuplicateLogged == a.pc = "log_duplicate" /\ a' # a /\ a'.pc # "except"

BecomesSynced(t) ==
    /\ t \in DOMAIN tracks'
    /\ tracks'[t].direction = "tg_to_yt"
    /\ tracks'[t].status = "synced"
    /\ t \in DOMAIN tracks => tracks[t].status # "synced"

\* C15: a tg_to_yt track that is synced carries an identifier that was added
\* to the target playlist; the step that reaches the add writes status
\* syncing, the step that reaches mark_synced is the add of the matched id
\* returning, and only the mark_synced step of that track, writing that id,
\* turns a status into synced.
C15_SyncedOnlyAfterAdd ==
    /\ [](\A t \in DOMAIN tracks :
             tracks[t].direction = "tg_to_yt" /\ tracks[t].status = "synced"
                 => /\ tracks[t].yt_video_id # NULL
                    /\ tracks[t].yt_video_id \in Range(yt_playlist))
    /\ [][/\ (a'.pc = "add" /\ a.pc # "add") =>
               /\ a.pc = "search" /\ a'.cur = a.cur /\ a'.vid # NULL
               /\ tracks'[a.cur].status = "syncing"
               /\ yt_playlist' = yt_playlist
          /\ (a'.pc = "mark_synced" /\ a.pc # "mark_synced") =>
               /\ a.pc = "add" /\ a'.cur = a.cur /\ a'.vid = a.vid
               /\ yt_playlist' = Append(yt_playlist, a.vid)
               /\ tracks' = tracks
          /\ yt_playlist' # yt_playlist => a.pc = "add" /\ a'.pc = "mark_synced"
          /\ \A t \in DOMAIN tracks' :
               BecomesSynced(t) =>
                  /\ a.pc = "mark_synced" /\ a.cur = t
                  /\ tracks'[t].yt_video_id = a.vid
                  /\ yt_playlist # <<>>
                  /\ yt_playlist[Len(yt_playlist)] = a.vid]_vars

\* mark_synced has just written the id that the add before it appended to the
\* playlist.
C15_Witness ==
    /\ a.pc = "log_synced"
    /\ a.cur \in DOMAIN tracks
    /\ tracks[a.cur].status = "synced"
    /\ tracks[a.cur].yt_video_id = a.vid
    /\ yt_playlist = <<a.vid>>

\* A step of the running tg_to_yt cycle that is not its return.
InCycleStep == a.pc \notin {"idle", "return"} /\ a' # a /\ a'.pc # "idle"

\* The step that ends the processing of a track whose branch was pc, with
\* _process_track returning.
TrackReturned(pcs) == a.pc \in pcs /\ a' # a /\ a'.pc # "except"

\* C16: the value process_pending returns counts the tracks that the cycle
\* added to the target playlist and marked synced, and no other track: the
\* count starts at 0, goes up by one when the processing of a synced track
\* ends, and is otherwise left alone; a cycle with no pending track returns
\* 0.
C16_ReturnCountsSynced ==
    [][/\ (a.pc = "idle" /\ a' # a) => a'.processed = 0
       /\ (a.pc = "idle" /\ a'.pc = "return")
            => get_pending_tracks(tracks, "tg_to_yt") = {}
       /\ InCycleStep =>
            a'.processed = IF TrackReturned({"log_synced"})
                           THEN a.processed + 1 ELSE a.processed]_vars

\* C16, amended: the value process_pending returns counts the tracks of the
\* cycle whose processing returned without raising, whether the track ended
\* synced, duplicate or failed for lack of a match; a track the exception
\* handler marked failed is not counted, and a cycle with no pending track
\* returns 0.
C16_ReturnCountsReturned ==
    [][/\ (a.pc = "idle" /\ a' # a) => a'.processed = 0
       /\ (a.pc = "idle" /\ a'.pc = "return")
            => get_pending_tracks(tracks, "tg_to_yt") = {}
       /\ InCycleStep =>
            a'.processed =
               IF TrackReturned({"log_no_match", "log_duplicate", "log_synced"})
               THEN a.processed + 1 ELSE a.processed]_vars

\* A cycle of two tracks returns 2 although it added one video only: the
\* second track found no match.
C16_Witness ==
    /\ a.pc = "return"
    /\ a.processed = 2
    /\ Len(yt_playlist) = 1
    /\ \E t \in DOMAIN tracks :
          /\ sync_log = {<<t, "no_yt_match">>}
          /\ tracks[t].status = "failed"
    /\ Cardinality({t \in DOMAIN tracks : tracks[t].status = "synced"}) = 1

Fetched == b.pc = "fetch" /\ b'.pc \notin {"fetch", "idle"}

\* C18: the id list a yt_to_tg cycle fetched stays the cycle's list to its
\* end; once the fetch has returned the cycle ends only by its snapshot
\* write, whatever happened to the single videos; that write stores exactly
\* the fetched list, in order; and nothing else changes the snapshot.
C18_SnapshotIsFetchedList ==
    [][/\ Fetched => b'.current_ids = yt_playlist
       /\ (b.pc \notin {"idle", "fetch"} /\ b'.pc # "idle")
            => b'.current_ids = b.current_ids
       /\ (b.pc \notin {"idle", "fetch"} /\ b'.pc = "idle")
            => b.pc = "snapshot" /\ snapshot' = <<"list", b.current_ids>>
       /\ snapshot' # snapshot => b.pc = "snapshot"]_vars

\* A completed cycle over the playlist <<2, 1>> in which one transfer failed
\* and one succeeded has stored <<2, 1>>.
C18_Witness ==
    /\ b.pc = "idle"
    /\ snapshot = <<"list", <<2, 1>>>>
    /\ yt_playlist = <<2, 1>>
    /\ DOMAIN tracks = {1, 2}
    /\ tracks[1].yt_video_id = 2 /\ tracks[1].status = "failed"
    /\ tracks[2].yt_video_id = 1 /\ tracks[2].status = "synced"

\* The ids a cycle is still to treat as new.
NewIds(s) == IF s.pc = "snapshot" THEN <<>> ELSE s.new_ids

\* The ids of the stored snapshot.
PrevIds == IF snapshot[1] = "list" THEN Range(snapshot[2]) ELSE {}

\* C19: the ids a yt_to_tg cycle treats as new are the ids of the fetched
\* playlist that are not in the stored snapshot, each once and in playlist
\* order, and all of the playlist when no snapshot is stored; the cycle
\* takes them one by one from the front, and a track it creates carries the
\* id at the front.
C19_NewIdsAreTheDiff ==
    [][/\ Fetched =>
            LET new == NewIds(b') IN
            /\ Range(new) = Range(yt_playlist) \ PrevIds
            /\ Len(new) = Cardinality(Range(new))
            /\ \A i, j \in 1..Len(new) :
                  i < j => \E p, q \in 1..Len(yt_playlist) :
                              /\ p < q
                              /\ yt_playlist[p] = new[i]
                              /\ yt_playlist[q] = new[j]
            /\ snapshot = <<"none">> => new = yt_playlist
       /\ b'.pc = "new_lookup" => b'.vid = b'.new_ids[1]
       /\ (b.pc \notin {"idle", "fetch", "snapshot"} /\ b' # b)
            => \/ NewIds(b') = b.new_ids /\ b'.vid = b.vid
               \/ NewIds(b') = Tail(b.new_ids)
       /\ (b.pc = "new_create" /\ b' # b)
            => /\ DOMAIN tracks' = DOMAIN tracks \cup {next_id}
               /\ tracks'[next_id].yt_video_id = b.new_ids[1]
       /\ (b.pc # "new_create" /\ b' # b) => DOMAIN tracks' = DOMAIN tracks]_vars

\* The stored snapshot holds a video that has left the playlist's front: of
\* the playlist <<2, 1>> only video 2 is new.
C19_Witness ==
    /\ b.pc = "new_lookup"
    /\ snapshot = <<"list", <<1>>>>
    /\ b.current_ids = <<2, 1>>
    /\ b.new_ids = <<2>>
    /\ b.vid = 2

\* C20: when a yt_to_tg cycle that had no pending track fetches a playlist
\* equal to the list the last completed cycle stored, it goes straight to
\* its snapshot write: it creates no track, starts no download and no
\* upload, and returns 0.
C20_UnchangedPlaylistIsIdle ==
    [][/\ (Fetched /\ snapshot = <<"list", yt_playlist>>) =>
            /\ b'.pc = "snapshot"
            /\ b'.synced = 0
            /\ UNCHANGED <<tracks, next_id, tg_next_msg, echoes>>
       /\ (b.pc = "snapshot" /\ b' # b) =>
            /\ b' = BIdle
            /\ UNCHANGED <<tracks, next_id, tg_next_msg, echoes>>]_vars

\* The second cycle over the playlist <<1, 2>> is about to return 0: the
\* stored snapshot is the list it fetched, and both videos have their track.
C20_Witness ==
    /\ b.pc = "snapshot"
    /\ b.synced = 0
    /\ b.current_ids = <<1, 2>>
    /\ snapshot = <<"list", <<1, 2>>>>
    /\ yt_playlist = <<1, 2>>
    /\ DOMAIN tracks = {1, 2}

\* The video the yt_to_tg cycle is looking up has a synced or duplicate row.
AlreadySynced ==
    /\ b.pc = "new_lookup"
    /\ \E t \in DOMAIN tracks :
          /\ tracks[t].yt_video_id = b.vid
          /\ tracks[t].status \in {"synced", "duplicate"}

NewTrackFailed(reason) ==
    /\ b.cur \in DOMAIN tracks'
    /\ tracks'[b.cur].yt_video_id = b.vid
    /\ tracks'[b.cur].status = "failed"
    /\ tracks'[b.cur].failure_reason = reason

\* C22: when the download of a new video raises, the track created for it
\* is failed with reason download_failed and nothing is sent to the
\* channel for it (the upload is reached only by a download that left the
\* track as it was); when the upload raises the reason is upload_failed; in
\* both cases the cycle then goes on with the next new id, or with its
\* snapshot write when there is none.
C22_TransferFailureFailsTrack ==
    [][/\ (b.pc = "new_download" /\ b'.pc = "new_upload") => tracks' = tracks
       /\ (b.pc = "new_download" /\ b'.pc # "new_upload" /\ b' # b) =>
            /\ b'.pc = "log_download_failed"
            /\ b'.cur = b.cur /\ b'.vid = b.vid
            /\ NewTrackFailed("download_failed")
            /\ UNCHANGED <<tg_next_msg, echoes>>
       /\ (b.pc = "new_upload" /\ b'.pc # "new_mark" /\ b' # b) =>
            /\ b'.pc = "log_upload_failed"
            /\ b'.cur = b.cur /\ b'.vid = b.vid
            /\ NewTrackFailed("upload_failed")
            /\ UNCHANGED <<tg_next_msg, echoes>>
       /\ (b.pc \in {"log_download_failed", "log_upload_failed"} /\ b' # b) =>
            /\ b'.pc \in {"new_lookup", "snapshot"}
            /\ NewIds(b') = Tail(b.new_ids)
            /\ b'.synced = b.synced
            /\ UNCHANGED <<tracks, tg_next_msg, echoes>>]_vars

\* The download of video 1 raised: its track is failed, nothing was sent,
\* its download_failed row has just been appended, and the cycle is at
\* video 2.
C22_Witness ==
    /\ b.pc = "new_lookup"
    /\ b.vid = 2
    /\ b.current_ids = <<1, 2>>
    /\ b.synced = 0
    /\ sync_log = {<<1, "download_failed">>}
    /\ DOMAIN tracks = {1}
    /\ tracks[1].yt_video_id = 1
    /\ tracks[1].status = "failed"
    /\ tracks[1].failure_reason = "download_failed"
    /\ tg_next_msg = 1

\* C23: the value process_new_tracks returns counts the tracks the cycle
\* turned synced, in its retry part and in its discovery part, and nothing
\* else: the count starts at 0 and a step raises it, by one, only for the
\* track the cycle has just synced; a new id left aside because a synced
\* or duplicate track carries it is not counted.
C23_ReturnCountsSynced ==
    [][/\ (b.pc = "idle" /\ b' # b) => b'.synced = 0
       /\ (b.pc # "idle" /\ b'.pc # "idle" /\ b'.synced # b.synced) =>
            /\ b'.synced = b.synced + 1
            /\ b.pc \in {"retry_mark", "log_synced"}
            /\ b.cur \in DOMAIN tracks'
            /\ tracks'[b.cur].status = "synced"]_vars

\* The tracks a step moves to retry_scheduled.
IntoRetryScheduled(t) ==
    /\ t \in DOMAIN tracks /\ t \in DOMAIN tracks'
    /\ tracks'[t].status = "retry_scheduled"
    /\ tracks[t].status # "retry_scheduled"

\* Track t as a retry leaves it: from failed to retry_scheduled with the
\* failure_reason cleared and every other column kept.
RetryOf(t) ==
    [tracks[t] EXCEPT !.status = "retry_scheduled", !.failure_reason = None]

\* The failed tracks, of direction dir when one is given.
FailedIn(dir) ==
    {t \in DOMAIN tracks :
        tracks[t].status = "failed" /\ (dir = None \/ tracks[t].direction = dir)}

C25_CycleEndsByReturn ==
    [][/\ (a.pc # "idle" /\ a'.pc = "idle") => a.pc = "return"
       /\ (b.pc # "idle" /\ b'.pc = "idle") => b.pc = "snapshot"]_vars

\* C26: identify_track returns the result of the first step that yields a
\* title, in the order embedded tags (method id3), provided title (method
\* tg_metadata, with the provided artist, which may be absent), file name
\* (method filename); it returns nothing only when all three yield nothing,
\* and a provided non-empty title is never passed over for the file name.
C26_FirstStepWins ==
    identified # << >> =>
        LET args == identified[1]
            result == identified[2]
            tagged == /\ truthy(args.file_path)
                      /\ args.tags[1] = "tags"
                      /\ truthy(args.tags[2].title)
            named == identify_from_filename(args.file_name)
        IN /\ tagged =>
                 /\ result[1] = "info"
                 /\ result[2].method = "id3"
                 /\ result[2].title = args.tags[2].title[2]
           /\ (~tagged /\ truthy(args.tg_title)) =>
                 result = TrackInfo(args.tg_performer, args.tg_title[2],
                                    "tg_metadata")
           /\ (~tagged /\ ~truthy(args.tg_title)) => result = named
           /\ result = Absent <=>
                 (~tagged /\ ~truthy(args.tg_title) /\ named = Absent)
           /\ result # Absent => result[2].title # << >>
           /\ (truthy(args.tg_title) /\ result # Absent) =>
                 result[2].method # "filename"

\* A call with no readable tags, a provided title and a file name that
\* parses returned the provided title.
C26_Witness ==
    /\ identified # << >>
    /\ identified[1].tags = <<"unreadable">>
    /\ identified[1].tg_title = Str(<<"a">>)
    /\ identified[1].tg_performer = Absent
    /\ identified[1].file_name = Str(<<"a", "-", "a">>)
    /\ identified[2] = TrackInfo(Absent, <<"a">>, "tg_metadata")

\* C27: when yt_to_tg cycles are interrupted before their snapshot write and
\* run again against the same playlist, no source id is uploaded to the
\* channel more than once overall.
C27_UploadedAtMostOnce == \A v \in AllVideos : uploads[v] <= 1

C29_TransitionTable ==
    {<<"pending", "identifying">>, <<"pending", "searching">>,
     <<"retry_scheduled", "identifying">>, <<"retry_scheduled", "searching">>,
     <<"identifying", "searching">>,
     <<"searching", "syncing">>, <<"searching", "duplicate">>,
     <<"searching", "failed">>,
     <<"syncing", "synced">>, <<"syncing", "failed">>,
     <<"failed", "retry_scheduled">>}

C29_ChangesFollowTable ==
    [][\A t \in DOMAIN tracks \cap DOMAIN tracks' :
           tracks[t].status # tracks'[t].status =>
               <<tracks[t].status, tracks'[t].status>>
                   \in C29_TransitionTable]_vars

\* C30: no track of a direction stays in identifying, searching or syncing
\* across two consecutive completed cycles of the direction: a track that
\* was in one of these statuses when the latest completed cycle returned has
\* left it when the next cycle returns.
C30_NothingLingers ==
    [][/\ (a.pc = "return" /\ a' = AIdle) =>
              lingering["tg_to_yt"] \cap in_pipeline(tracks, "tg_to_yt") = {}
       /\ (b.pc = "snapshot" /\ b' = BIdle
             /\ snapshot' = <<"list", b.current_ids>>) =>
              lingering["yt_to_tg"] \cap in_pipeline(tracks, "yt_to_tg") = {}
      ]_vars

Waiting(t) ==
    t \in DOMAIN tracks /\ tracks[t].status \in {"pending", "retry_scheduled"}

Settled(t) ==
    t \in DOMAIN tracks
        /\ tracks[t].status \in {"synced", "duplicate", "failed"}

Holder(w) ==
    CASE w = "tg_to_yt" -> IF a.pc = "to_searching" THEN {a.cur} ELSE {}
      [] w = "yt_to_tg" -> IF b.pc \in BUploadPcs THEN {b.cur} ELSE {}
      [] w = "sp_to_tg" -> IF c.pc \in BUploadPcs THEN {c.cur} ELSE {}

\* C32: every local file a worker obtained (download_file in a tg_to_yt
\* cycle, downloader.download in a yt_to_tg or sp_to_tg cycle) is removed by
\* a cleanup call before the processing of its track ends, whether the
\* transfer succeeded, failed or raised, and whether the upload or a write
\* to the store failed; and the file is still on disk while it is used:
\* while send_audio of its track runs.
C32_FilesReleased ==
    /\ \A w \in Workers : temp_files[w] \subseteq Holder(w)
    /\ b.pc \in {"retry_upload", "new_upload"} => b.cur \in temp_files["yt_to_tg"]
    /\ c.pc \in {"retry_upload", "new_upload"} => c.cur \in temp_files["sp_to_tg"]
    /\ a.pc = "to_searching" => a.cur \in temp_files["tg_to_yt"]

\* A yt_to_tg track failed by its upload and an sp_to_tg track synced after
\* a retry are in the table, the tg_to_yt cycle has passed its download, and
\* no file is left.
C32_Witness ==
    /\ \A w \in Workers : temp_files[w] = {}
    /\ a.pc = "search"
    /\ \E t \in DOMAIN tracks :
          /\ tracks[t].direction = "yt_to_tg"
          /\ tracks[t].failure_reason = "upload_failed"
    /\ \E t \in DOMAIN tracks :
          /\ tracks[t].direction = "sp_to_tg"
          /\ tracks[t].status = "synced"
          /\ tracks[t].retry_count > 0

\* The step in which the playlist fetch of a cycle raises, and for the
\* tg_to_yt cycle the step in which the exception leaves process_pending.
AFetchRaises == (a.pc = "idle" /\ a'.pc = "raised") \/ (a.pc = "raised" /\ a' # a)
BFetchRaises == b.pc = "fetch" /\ b'.pc = "idle"
CFetchRaises == c.pc = "fetch" /\ c'.pc = "idle"

\* C33 as stated: a cycle whose playlist fetch raises has changed no track;
\* in particular a pull-based cycle has marked no track synced when its
\* fetch raises (synced counts the tracks the cycle marked synced).
C33_AbortedCycleChangedNothing ==
    [][/\ BFetchRaises => b.synced = 0
       /\ CFetchRaises => c.synced = 0]_vars

\* C33: when the playlist fetch of a cycle raises, the cycle is aborted
\* there and changes nothing from the fetch on: no field of a track, no new
\* track, and the stored snapshot is the one stored before.  A tg_to_yt cycle
\* fetches before its first write, so it changes nothing at all; a yt_to_tg
\* or sp_to_tg cycle has run its retry phase by then.
C33_AbortChangesNothing ==
    [][(AFetchRaises \/ BFetchRaises \/ CFetchRaises) =>
            /\ tracks' = tracks
            /\ next_id' = next_id
            /\ snapshot' = snapshot
            /\ sp_snapshot' = sp_snapshot]_vars

\* The fetch of a tg_to_yt cycle has raised while a track waits, and an
\* earlier yt_to_tg cycle has retried a track.
C33_Witness ==
    /\ a.pc = "raised"
    /\ \E t \in DOMAIN tracks :
          tracks[t].direction = "tg_to_yt" /\ tracks[t].status = "pending"
    /\ \E t \in DOMAIN tracks :
          /\ tracks[t].direction = "yt_to_tg"
          /\ tracks[t].status = "synced"
          /\ tracks[t].retry_count > 0

\* C34: every transition of a track into failed or into synced that a worker
\* makes is recorded while the worker is at that track: when the step that
\* makes the transition is also the one in which the yt_to_tg worker leaves
\* the track, that step appends the log row (track_synced for synced, a
\* failure event for failed).
C34_TransitionsLogged ==
    [][\A t \in DOMAIN tracks \cap DOMAIN tracks' :
          (/\ b.cur = t /\ b'.cur # t
           /\ tracks'[t].status # tracks[t].status
           /\ tracks'[t].status \in {"failed", "synced"})
          => IF tracks'[t].status = "synced"
             THEN <<t, "track_synced">> \in sync_log'
             ELSE \E e \in {"sync_failed", "download_failed", "upload_failed"} :
                     <<t, e>> \in sync_log']_vars

\* ------------------------------------------------------------------------
\* Claims about the fan-out, shutdown and the two directions together
\* ------------------------------------------------------------------------

\* The rows that carried the SP track of row t before t was created, and the
\* sp_to_yt row created right after t for the same SP track.
PriorOwners(t) ==
    {q \in DOMAIN tracks :
        q < t /\ tracks[q].sp_track_id = tracks[t].sp_track_id}

Companions(t) ==
    {k \in DOMAIN tracks :
        /\ k = t + 1
        /\ tracks[k].direction = "sp_to_yt"
        /\ tracks[k].sp_track_id = tracks[t].sp_track_id}

CycleRaises(d) ==
    /\ loop[d] = "cycle" /\ loop'[d] # "cycle"
    /\ last_cycle'[d] = "crash"

\* C36: when a cycle of direction d raises, the exception stays in d's
\* loop: the loop goes to its compound wait, run() keeps running, and the
\* loop, the cycle, the force event and the timer of every other direction
\* are as they were; and once the interval has expired or a force was
\* requested, d's loop starts its next cycle unless shutdown was requested.
C36_CrashStaysInLoop ==
    /\ [][\A d \in Dirs : CycleRaises(d) =>
             /\ loop'[d] = "wait"
             /\ engine_run' = engine_run /\ shutdown' = shutdown
             /\ \A e \in Dirs \ {d} :
                   /\ loop'[e] = loop[e] /\ inflight'[e] = inflight[e]
                   /\ force_events'[e] = force_events[e]
                   /\ elapsed'[e] = elapsed[e]
                   /\ last_cycle'[e] = last_cycle[e]]_vars
    /\ \A d \in Dirs :
          (last_cycle[d] = "crash" /\ loop[d] = "wait"
              /\ (elapsed[d] \/ force_events[d]))
          ~> (loop[d] = "cycle" \/ shutdown)

\* A direction runs a cycle again after its previous cycle raised, and the
\* other direction has completed a cycle.
C36_Witness ==
    \E d \in Dirs, e \in Dirs :
        /\ d # e
        /\ last_cycle[d] = "crash" /\ loop[d] = "cycle" /\ ~shutdown
        /\ last_cycle[e] = "complete"

\* C37: when the engine task has ended in the shutdown that run() performs,
\* no track is left in identifying, searching or syncing: the cycle that was
\* in flight when the signal arrived ran to completion first.
C37_ShutdownLeavesNoTransient ==
    engine_run # "running" =>
        \A t \in DOMAIN tracks :
            tracks[t].status \notin {"identifying", "searching", "syncing"}

\* The videos a tg_to_yt cycle has added to the YT playlist: add_to_playlist
\* returned for the track, which is on its way to synced or is synced.
AddedByTgToYt ==
    {tracks[t].yt_video_id :
        t \in {u \in DOMAIN tracks : /\ tracks[u].direction = "tg_to_yt"
                                     /\ tracks[u].status = "synced"}}
    \cup (IF a.pc = "mark_synced" THEN {a.vid} ELSE {})

\* C38: a video that a tg_to_yt cycle added to the YT playlist is never
\* treated as a new item by yt_to_tg: no yt_to_tg track exists for it and
\* nothing was uploaded to TG for it.
C38_AddedVideoNotReimported ==
    \A v \in AddedByTgToYt :
        /\ \A t \in DOMAIN tracks :
              tracks[t].direction = "yt_to_tg" => tracks[t].yt_video_id # v
        /\ uploads[v] = 0

\* How many items of the YT playlist hold video v.
TimesInPlaylist(v) ==
    Cardinality({i \in DOMAIN yt_playlist : yt_playlist[i] = v})

\* C39: within one tg_to_yt cycle no video id is added to the YT playlist
\* more than once: while a cycle runs, a video that was absent from the
\* playlist fetched at the cycle's start is in the playlist at most once.
C39_NoIdAddedTwice ==
    a.pc # "idle" =>
        \A v \in Videos \ a.snap : TimesInPlaylist(v) <= 1

\* C40: every track has a failure reason exactly when it is failed:
\* mark_failed writes both, the resets clear both, and no other write of a
\* cycle or of the store touches a failed track or the reason.
C40_ReasonIffFailed ==
    \A t \in DOMAIN tracks :
        (tracks[t].failure_reason # None) <=> (tracks[t].status = "failed")

\* A track that failed, was reset and has left the retry with no reason,
\* next to a track that is failed.
C40_Witness ==
    \E t \in DOMAIN tracks, u \in DOMAIN tracks :
        /\ tracks[t].retry_count >= 1
        /\ tracks[t].status \in {"synced", "duplicate", "searching"}
        /\ tracks[t].failure_reason = None
        /\ tracks[u].status = "failed"
        /\ tracks[u].failure_reason # None

====
